---------------------------- MODULE Spec2Model ----------------------------
(***************************************************************************)
(* DebuggerEngine (src/unnamed/part_005, declared in                       *)
(* src/include/debugger_engine.h): the process controller of the debugger. *)
(* The engine's fields are the first five variables.  The kernel side of   *)
(* the ptrace interface (the processes, their memory and their stops) is   *)
(* the environment: proc and mem.  op and ret record the last call and its *)
(* return value; preAdd is a history variable: the byte a breakpoint's      *)
(* insertion found at its address.                                         *)
(*                                                                         *)
(* A machine word (long, 8 bytes, little endian) is a tuple of WordSize    *)
(* bytes, index 1 the low byte, which is the byte at the lowest address.   *)
(*                                                                         *)
(* Next to the engine stand an ElfParser                                   *)
(* (src/src/disassembler/elf_parser.cpp) and a Disassembler                *)
(* (src/unnamed/part_004): parser and disasm hold their fields, arg the    *)
(* instruction stream or the byte buffer handed to the Disassembler.  A    *)
(* Project (src/src/core/project.cpp) is held in project, the file it is   *)
(* saved to in disk.                                                       *)
(***************************************************************************)
EXTENDS Integers, Sequences, FiniteSets, TLC

VARIABLES target_pid, current_state, executable_path, breakpoints, last_error,
          proc, mem, op, ret, preAdd, parser, disasm, arg, project, disk

vars == << target_pid, current_state, executable_path, breakpoints, last_error,
           proc, mem, op, ret, preAdd, parser, disasm, arg, project, disk >>

engine == << target_pid, current_state, executable_path, breakpoints, last_error >>

\* the state that no operation of the engine touches: the ElfParser object,
\* the Disassembler object, the argument of the last call of a function of
\* the Disassembler, the Project object and its file
objects == << parser, disasm, arg, project, disk >>

(***************************************************************************)
(* Bounds of the model.                                                    *)
(***************************************************************************)
\* process ids the kernel can hand out: 1 .. MaxPid
MaxPid == 2
\* the target's mapped memory is the addresses 0 .. MemTop
MemTop == 15

(***************************************************************************)
(* Program constants.                                                      *)
(***************************************************************************)
\* sizeof(long) on x86-64, the unit of PTRACE_PEEKTEXT / PTRACE_POKETEXT
WordSize == 8
\* INT3, the trap opcode written by insert_software_breakpoint
INT3 == 204
\* the byte mask 0xFF (a failed PTRACE_PEEKTEXT returns -1: every byte 0xFF)
ByteMask == 255
\* target_pid when no process is attached
NoPid == 0 - 1

Pids == 1 .. MaxPid
Addrs == 0 .. MemTop

(***************************************************************************)
(* The target program, loaded at address 0: a call to a two-instruction    *)
(* function, then a nop and the exit system call.  The rest of the mapped  *)
(* memory is 0.  Opcodes are written as 16 * high digit + low digit.       *)
(*    0: E8 03 00 00 00   call 8                                           *)
(*    5: 90               nop                                              *)
(*    6: 0F 05            syscall (exit)                                   *)
(*    8: 90               nop                                              *)
(*    9: C3               ret                                              *)
(***************************************************************************)
OpCall == 16 * 14 + 8
OpNop == 16 * 9 + 0
OpRet == 16 * 12 + 3
OpSys == 16 * 0 + 15
OpSys2 == 16 * 0 + 5
\* the opcode and a 32-bit displacement
CallSize == 1 + 4

Program == << OpCall, 3, 0, 0, 0, OpNop, OpSys, OpSys2, OpNop, OpRet >>

Image == [a \in Addrs |-> IF a < Len(Program) THEN Program[a + 1] ELSE 0]

(***************************************************************************)
(* A process as the kernel holds it.                                       *)
(*   status  "none"     no such process                                    *)
(*           "free"     alive and not traced                               *)
(*           "running"  traced by the engine and executing                 *)
(*           "stopped"  traced by the engine and in a ptrace stop          *)
(*           "zombie"   dead and not yet waited for                        *)
(*   ip      its instruction pointer (a process starts at address 0)       *)
(*   stack   its return addresses                                          *)
(*   sigstop a SIGSTOP is pending                                          *)
(*   notify  its stop or exit has not been reported by waitpid yet         *)
(***************************************************************************)
NoProc == [status |-> "none", ip |-> 0, stack |-> << >>,
           sigstop |-> FALSE, notify |-> FALSE]
FreshProc(st) == [NoProc EXCEPT !.status = st]

\* the tracee enters a ptrace stop (trap or signal delivery)
Stop(pr) == [pr EXCEPT !.status = "stopped", !.notify = TRUE]
\* the process ends (exit, or a fatal signal)
Die(pr) == [pr EXCEPT !.status = "zombie", !.notify = TRUE, !.sigstop = FALSE]

\* the signed 32-bit displacement stored little endian at a .. a+3
Rel32(m, a) ==
  LET hi == IF m[a + 3] >= 128 THEN m[a + 3] - 256 ELSE m[a + 3]
  IN m[a] + 256 * m[a + 1] + 65536 * m[a + 2] + 16777216 * hi

\* the call of the program, its return address and its callee
CallAddr == CHOOSE a \in Addrs : Image[a] = OpCall
RetAddr == CallAddr + CallSize
FuncAddr == RetAddr + Rel32(Image, CallAddr + 1)

\* One instruction of a traced process; a byte that is no instruction of the
\* program above raises a fault, which stops the tracee where it is.
Exec(pr, m) ==
  IF pr.ip \notin Addrs THEN Stop(pr)
  ELSE LET b == m[pr.ip] IN
    CASE b = INT3 -> Stop([pr EXCEPT !.ip = @ + 1])
      [] b = OpNop -> [pr EXCEPT !.ip = @ + 1]
      [] b = OpCall ->
           IF pr.ip + CallSize - 1 \in Addrs
             THEN [pr EXCEPT !.ip = pr.ip + CallSize + Rel32(m, pr.ip + 1),
                             !.stack = << pr.ip + CallSize >> \o @]
             ELSE Stop(pr)
      [] b = OpRet ->
           IF pr.stack # << >>
             THEN [pr EXCEPT !.ip = Head(pr.stack), !.stack = Tail(@)]
             ELSE Stop(pr)
      [] b = OpSys ->
           IF pr.ip + 1 \in Addrs /\ m[pr.ip + 1] = OpSys2
             THEN Die(pr) ELSE Stop(pr)
      [] OTHER -> Stop(pr)

\* What a running tracee does next: take a pending SIGSTOP, or execute.
Advance(pr, m) ==
  IF pr.sigstop THEN Stop([pr EXCEPT !.sigstop = FALSE]) ELSE Exec(pr, m)

\* PTRACE_SINGLESTEP followed by waitpid: the tracee is resumed, stops again
\* after one instruction at the latest, and the stop (or exit) is reported.
\* waitpid reaps a process that has exited.
Reap(pr) == IF pr.status = "zombie" THEN NoProc ELSE [pr EXCEPT !.notify = FALSE]
SingleStep(pr, m) ==
  LET nx == Advance([pr EXCEPT !.status = "running", !.notify = FALSE], m)
  IN Reap(IF nx.status = "running" THEN Stop(nx) ELSE nx)

(***************************************************************************)
(* The tracing interface.                                                  *)
(***************************************************************************)
Exists(p) == p \in Pids /\ proc[p].status # "none"
\* a ptrace request other than ATTACH needs a tracee in a ptrace stop
Stopped(pr) == pr.status = "stopped"
CanTrace(p) == p \in Pids /\ Stopped(proc[p])
\* a word access touches address .. address + WordSize - 1
Mapped(address) == address \in Addrs /\ address + WordSize - 1 \in Addrs
\* the last mapped byte lies in a mapping that ptrace can read and cannot
\* write (such as the vsyscall page)
Writable(address) == Mapped(address) /\ address + WordSize - 1 < MemTop

\* PTRACE_PEEKTEXT: the word at address, low byte first
PeekWord(m, address) == [j \in 1 .. WordSize |-> m[address + j - 1]]
\* the value -1 a failed ptrace call returns
MinusOne == [j \in 1 .. WordSize |-> ByteMask]
\* PTRACE_POKETEXT
PokeWord(m, address, word) ==
  [a \in Addrs |-> IF a >= address /\ a < address + WordSize
                     THEN word[a - address + 1] ELSE m[a]]

\* the value of (data & ~0xFF) | b
WithLowByte(word, b) == [word EXCEPT ![1] = b]
\* faulty variant of LowByte: the second byte of the word is taken
LowByte_second(word) == word[2]

\* the value of data & 0xFF
LowByte(word) == word[1]

(***************************************************************************)
(* ElfParser (src/src/disassembler/elf_parser.cpp).  A file is the tuple   *)
(* of its bytes; a string that the code builds or searches is a tuple of   *)
(* characters.                                                             *)
(***************************************************************************)
Archs == {"X86", "X86_64", "ARM", "ARM64", "UNKNOWN"}

Reverse(b) == [j \in 1 .. Len(b) |-> b[Len(b) + 1 - j]]

\* the k bytes at offset off of the file f
At(f, off, k) == [j \in 1 .. k |-> f[off + j]]

\* the number whose digits in base 256 are b, lowest first
RECURSIVE Magnitude(_)
Magnitude(b) == IF b = << >> THEN 0 ELSE Head(b) + 256 * Magnitude(Tail(b))

\* the value of an integer whose bytes in memory are b (the host is little
\* endian).  A uint64_t x with the top bit set is held as the negative
\* number x - 2^64, which has the same 64 bits in two's complement: sums and
\* differences of such numbers are those of the uint64_t (modulo 2^64), and
\* ULess is the order of the uint64_t.
Native(b) ==
  IF Len(b) = 8 /\ b[8] >= 128
    THEN -(Magnitude([j \in 1 .. 8 |-> 255 - b[j]]) + 1)
    ELSE Magnitude(b)

\* x < y for two uint64_t
ULess(x, y) == IF (x < 0) = (y < 0) THEN x < y ELSE y < 0

\* the k-byte field at offset off, byte-swapped (__builtin_bswap) when the file
\* is not little endian
Field(f, off, k, little) ==
  Native(IF little THEN At(f, off, k) ELSE Reverse(At(f, off, k)))

HexDigits == << "0", "1", "2", "3", "4", "5", "6", "7", "8", "9",
               "a", "b", "c", "d", "e", "f" >>

\* the k lowest hexadecimal digits of the bits of n
RECURSIVE LowDigits(_, _)
LowDigits(n, k) ==
  IF k = 0 THEN << >>
  ELSE LowDigits(n \div 16, k - 1) \o << HexDigits[(n % 16) + 1] >>

\* the decimal digits ds of a number, less m
RECURSIVE Less(_, _)
Less(ds, m) ==
  IF ds = << >> THEN << >>
  ELSE LET v == ds[Len(ds)] - (m % 10)
       IN Less(SubSeq(ds, 1, Len(ds) - 1),
               (m \div 10) + (IF v < 0 THEN 1 ELSE 0))
          \o << v % 10 >>

\* the digits of n in base b, as operator<< and std::to_string write them;
\* a negative n stands for the 64-bit value 18446744073709551616 + n (b is
\* 10 or 16 then)
RECURSIVE Digits(_, _)
Digits(n, b) ==
  IF n < 0 /\ b = 16 THEN LowDigits(n, 16)
  ELSE IF n < 0
    THEN LET ds == Less(<< 1, 8, 4, 4, 6, 7, 4, 4, 0, 7, 3, 7, 0, 9, 5, 5, 1,
                           6, 1, 6 >>, -n)
         IN [i \in 1 .. Len(ds) |-> HexDigits[ds[i] + 1]]
  ELSE IF n < b THEN << HexDigits[n + 1] >>
  ELSE Digits(n \div b, b) \o << HexDigits[(n % b) + 1] >>

\* "0x" << std::hex << n
HexString(n) ==
  << "0", "x" >> \o (IF n < 0 THEN LowDigits(n, 16) ELSE Digits(n, 16))

\* the ELF magic 7F 'E' 'L' 'F'
ElfMagic == << 127, 69, 76, 70 >>

\* sizeof of the program header structs of parse_program_headers
Phdr64Size == 4 + 4 + 8 * 6
Phdr32Size == 4 * 8
\* the most bytes read_code_segment reads
MaxSegment == 1024 * 1024

(***************************************************************************)
(* The files of the model.  An ELF image has a complete header and the     *)
(* program headers its header announces, or it ends inside its header.     *)
(***************************************************************************)
RECURSIVE LeBytes(_, _)
LeBytes(n, k) == IF k = 0 THEN << >> ELSE << n % 256 >> \o LeBytes(n \div 256, k - 1)
Enc(n, k, little) == IF little THEN LeBytes(n, k) ELSE Reverse(LeBytes(n, k))

RECURSIVE Flatten(_)
Flatten(ss) == IF ss = << >> THEN << >> ELSE Head(ss) \o Flatten(Tail(ss))

Ident(is64, little) ==
  ElfMagic \o << IF is64 THEN 2 ELSE 1, IF little THEN 1 ELSE 2, 1 >>
           \o LeBytes(0, 9)

\* a 64-bit image: header, program headers segs, then the bytes code
Elf64File(little, entry, segs, code) ==
  LET E(n, k) == Enc(n, k, little)
      phdr(sg) == E(sg.type, 4) \o E(sg.flags, 4) \o E(sg.offset, 8)
                  \o E(sg.vaddr, 8) \o E(sg.vaddr, 8) \o E(sg.filesz, 8)
                  \o E(sg.filesz, 8) \o E(1, 8)
  IN Ident(TRUE, little) \o E(2, 2) \o E(62, 2) \o E(1, 4) \o E(entry, 8)
     \o E(64, 8) \o E(0, 8) \o E(0, 4) \o E(64, 2) \o E(Phdr64Size, 2)
     \o E(Len(segs), 2) \o E(0, 2) \o E(0, 2) \o E(0, 2)
     \o Flatten([i \in 1 .. Len(segs) |-> phdr(segs[i])]) \o code

\* a 32-bit image
Elf32File(little, entry, segs, code) ==
  LET E(n, k) == Enc(n, k, little)
      phdr(sg) == E(sg.type, 4) \o E(sg.offset, 4) \o E(sg.vaddr, 4)
                  \o E(sg.vaddr, 4) \o E(sg.filesz, 4) \o E(sg.filesz, 4)
                  \o E(sg.flags, 4) \o E(1, 4)
  IN Ident(FALSE, little) \o E(2, 2) \o E(3, 2) \o E(1, 4) \o E(entry, 4)
     \o E(52, 4) \o E(0, 4) \o E(0, 4) \o E(52, 2) \o E(Phdr32Size, 2)
     \o E(Len(segs), 2) \o E(0, 2) \o E(0, 2) \o E(0, 2)
     \o Flatten([i \in 1 .. Len(segs) |-> phdr(segs[i])]) \o code

Seg(type, flags, offset, vaddr, filesz) ==
  [type |-> type, flags |-> flags, offset |-> offset, vaddr |-> vaddr,
   filesz |-> filesz]

\* the opcode of push rbp (push ebp in 32-bit mode)
OpPushBp == 16 * 5 + 5

\* push rbp; ret
Code == << OpPushBp, OpRet >>

\* "missing" names no file.  The others:
\*   empty    no byte
\*   short    the first three bytes of the magic
\*   text     sixteen bytes that are not the magic
\*   stub     the magic and four more bytes
\*   a64      64-bit little endian: a data segment, then the code segment
\*   b32      32-bit big endian: the code segment
\*   noexec   64-bit little endian: a data segment only
\*   cut64    the first 24 bytes of a64 (its header ends before e_entry)
\*   cut32    the first 48 bytes of b32 (its header ends behind e_phnum)
\*   one64    64-bit little endian: a code segment of one byte (ret)
\*   top64    64-bit little endian: the code segment, the entry point is 64
\*            bytes below 2^64
\*   over64   64-bit little endian: the code segment is declared one byte
\*            longer than read_code_segment reads at most; the file ends
\*            after two bytes of it
\*   mid64    64-bit little endian: the code segment, the entry point is its
\*            second byte
FileData ==
  [n \in {"empty", "short", "text", "stub", "a64", "b32", "noexec", "cut64",
          "cut32", "one64", "top64", "over64", "mid64"} |->
     CASE n = "empty" -> << >>
       [] n = "short" -> SubSeq(ElfMagic, 1, 3)
       [] n = "text" -> [j \in 1 .. 16 |-> 35]
       [] n = "stub" -> ElfMagic \o LeBytes(0, 4)
       [] n = "a64" ->
            Elf64File(TRUE, 4096,
                      << Seg(1, 6, 0, 8192, 64),
                         Seg(1, 5, 64 + 2 * Phdr64Size, 4096, Len(Code)) >>,
                      Code)
       [] n = "b32" ->
            Elf32File(FALSE, 2048,
                      << Seg(1, 5, 52 + Phdr32Size, 2048, Len(Code)) >>, Code)
       [] n = "noexec" ->
            Elf64File(TRUE, 4096, << Seg(1, 6, 0, 8192, 64) >>, << >>)
       [] n = "cut64" ->
            SubSeq(Elf64File(TRUE, 4096,
                             << Seg(1, 5, 64 + Phdr64Size, 4096, Len(Code)) >>,
                             Code), 1, 24)
       [] n = "cut32" ->
            SubSeq(Elf32File(FALSE, 2048,
                             << Seg(1, 5, 52 + Phdr32Size, 2048, Len(Code)) >>,
                             Code), 1, 48)
       [] n = "one64" ->
            Elf64File(TRUE, 4096, << Seg(1, 5, 64 + Phdr64Size, 4096, 1) >>,
                      << OpRet >>)
       [] n = "top64" ->
            Elf64File(TRUE, -64, << Seg(1, 5, 64 + Phdr64Size, 4096, 1) >>,
                      << OpRet >>)
       [] n = "over64" ->
            Elf64File(TRUE, 4096,
                      << Seg(1, 5, 64 + Phdr64Size, 4096, MaxSegment + 1) >>,
                      Code)
       [] n = "mid64" ->
            Elf64File(TRUE, 4096 + 1,
                      << Seg(1, 5, 64 + Phdr64Size, 4096, Len(Code)) >>,
                      Code)]

FileNames == DOMAIN FileData \cup {"missing"}

(***************************************************************************)
(* The parser object: the fields of class ElfParser; cached_info is the    *)
(* ElfInfo.  The constructor initializes loaded and info_cached only: the  *)
(* strings and vectors of cached_info start empty, its scalars have no     *)
(* determined value.                                                       *)
(***************************************************************************)
FreshParser(arch, entry, is64, little) ==
  [filename |-> "", last_error |-> "", loaded |-> FALSE, info_cached |-> FALSE,
   cached_info |->
     [filename |-> "", architecture |-> arch, entry_point_hex |-> << >>,
      entry_point |-> entry, file_type |-> "", is_64bit |-> is64,
      is_little_endian |-> little, machine_type |-> "",
      sections |-> << >>, symbols |-> << >>]]

FreshParsers ==
  {FreshParser(arch, entry, is64, little) :
     arch \in {"X86", "UNKNOWN"}, entry \in {0, 1},
     is64 \in BOOLEAN, little \in BOOLEAN}

\* the buffer that file.read(header, 64) fills
HeaderSize == 64

\* a stream whose first read ended at the end of the file has failed: seekg
\* and read do nothing on it from then on
ShortRead(f) == Len(f) < HeaderSize

\* What the parser finds in memory that no read has filled: entry is the
\* value of the local variable entry of cache_elf_info, field that of a
\* header field behind the end of the file, phdr the content of the local
\* variable phdr of parse_program_headers.
Junks ==
  {[entry |-> e, field |-> c, phdr |-> s] :
     e \in {0, 3 * 4096}, c \in {0, 1},
     s \in {Seg(0, 0, 0, 0, 0), Seg(1, 5, 0, 4096, 4)}}

\* the memory a load of the file can come to look at: none of it is looked
\* at when the file fills the header buffer
JunksOf(filename) ==
  IF filename \in DOMAIN FileData /\ ShortRead(FileData[filename])
    THEN Junks
    ELSE {[entry |-> 0, field |-> 0, phdr |-> Seg(0, 0, 0, 0, 0)]}

\* the k-byte field at offset off of the header buffer
HeaderField(f, off, k, little, junk) ==
  IF off + k <= Len(f) THEN Field(f, off, k, little) ELSE junk.field

\* the section read_code_segment appends: size bytes at most are read from
\* file_offset on, as many as the file has
read_code_segment(info, f, file_offset, vaddr, size) ==
  LET limit == IF ULess(size, MaxSegment) THEN size ELSE MaxSegment
      avail == IF ULess(file_offset, Len(f)) THEN Len(f) - file_offset ELSE 0
      gcount == IF limit < avail THEN limit ELSE avail
      text_section ==
        [name |-> ".text", address |-> vaddr, size |-> gcount,
         file_offset |-> file_offset, type |-> "PROGBITS", flags |-> "AX",
         data |-> At(f, file_offset, gcount), is_executable |-> TRUE,
         is_writable |-> FALSE, is_readable |-> TRUE]
  IN [info EXCEPT !.sections = Append(@, text_section)]

\* the loop of parse_program_headers from header i on (i from 0): the first
\* PT_LOAD header with the flag PF_X gives the code segment.  On a failed
\* stream no header is read and phdr keeps its content.
RECURSIVE ProgramHeaderLoop(_, _, _, _, _, _)
ProgramHeaderLoop(info, f, ph_offset, ph_count, i, junk) ==
  IF ~(i < ph_count /\ i < 16) THEN info
  ELSE LET little == info.is_little_endian
           at == ph_offset + i * (IF info.is_64bit THEN Phdr64Size
                                                   ELSE Phdr32Size)
           read == ~ShortRead(f)
           p_type == IF read THEN Field(f, at, 4, little) ELSE junk.phdr.type
           p_flags == IF ~read THEN junk.phdr.flags
                      ELSE IF info.is_64bit THEN Field(f, at + 4, 4, little)
                                            ELSE Field(f, at + 24, 4, little)
           p_offset == IF ~read THEN junk.phdr.offset
                       ELSE IF info.is_64bit THEN Field(f, at + 8, 8, little)
                                             ELSE Field(f, at + 4, 4, little)
           p_vaddr == IF ~read THEN junk.phdr.vaddr
                      ELSE IF info.is_64bit THEN Field(f, at + 16, 8, little)
                                            ELSE Field(f, at + 8, 4, little)
           p_filesz == IF ~read THEN junk.phdr.filesz
                       ELSE IF info.is_64bit THEN Field(f, at + 32, 8, little)
                                             ELSE Field(f, at + 16, 4, little)
       IN IF p_type = 1 /\ p_flags % 2 = 1
            THEN read_code_segment(info, f, p_offset, p_vaddr, p_filesz)
            ELSE ProgramHeaderLoop(info, f, ph_offset, ph_count, i + 1, junk)

parse_program_headers(info, f, junk) ==
  LET little == info.is_little_endian
      ph_offset == IF info.is_64bit THEN HeaderField(f, 32, 8, little, junk)
                                    ELSE HeaderField(f, 28, 4, little, junk)
      ph_count == IF info.is_64bit THEN HeaderField(f, 56, 2, little, junk)
                                   ELSE HeaderField(f, 44, 2, little, junk)
  IN ProgramHeaderLoop(info, f, ph_offset, ph_count, 0, junk)

\* the symbol cache_elf_info makes up for the entry point
MainSymbol(entry_point) ==
  [name |-> "main", address |-> entry_point, size |-> 100, type |-> "FUNC",
   binding |-> "GLOBAL", section_name |-> ".text", is_function |-> TRUE,
   is_imported |-> FALSE, is_exported |-> TRUE]

\* cache_elf_info on a loaded parser whose file is f: the fields of
\* cached_info are assigned, its sections and symbols are appended to.  The
\* entry point is read with a seekg and a read behind the read of the
\* header.
cache_elf_info(ps, f, junk) ==
  LET is64 == f[5] = 2
      little == f[6] = 1
      entry == IF ShortRead(f) THEN junk.entry
               ELSE Field(f, 24, IF is64 THEN 8 ELSE 4, little)
      info1 == [ps.cached_info EXCEPT
                  !.filename = ps.filename,
                  !.is_64bit = is64,
                  !.is_little_endian = little,
                  !.architecture = IF is64 THEN "X86_64" ELSE "X86",
                  !.machine_type = IF is64 THEN "x86-64" ELSE "i386",
                  !.entry_point = entry,
                  !.entry_point_hex = HexString(entry),
                  !.file_type = "Executable"]
      info2 == parse_program_headers(info1, f, junk)
      info3 == [info2 EXCEPT !.symbols = Append(@, MainSymbol(entry))]
  IN [ps EXCEPT !.cached_info = info3, !.info_cached = TRUE]

\* faulty variant of LoadFile: loaded is not reset at the start
LoadFile_keeps_loaded(ps, filename, junk) ==
  LET p0 == [ps EXCEPT !.filename = filename, !.info_cached = FALSE,
                       !.last_error = ""]
  IN IF filename \notin DOMAIN FileData
       THEN [parser |-> [p0 EXCEPT !.last_error =
                                     "Failed to open file: " \o filename],
             ret |-> FALSE]
     ELSE LET f == FileData[filename]
          IN IF Len(f) < 16 \/ SubSeq(f, 1, 4) # ElfMagic
               THEN [parser |-> [p0 EXCEPT !.last_error = "Not a valid ELF file"],
                     ret |-> FALSE]
               ELSE [parser |-> cache_elf_info([p0 EXCEPT !.loaded = TRUE], f,
                                               junk),
                     ret |-> TRUE]

\* load_file on the parser ps: the parser it leaves and the value returned
LoadFile(ps, filename, junk) ==
  LET p0 == [ps EXCEPT !.filename = filename, !.loaded = FALSE,
                       !.info_cached = FALSE, !.last_error = ""]
  IN IF filename \notin DOMAIN FileData
       THEN [parser |-> [p0 EXCEPT !.last_error =
                                     "Failed to open file: " \o filename],
             ret |-> FALSE]
     ELSE LET f == FileData[filename]
          IN IF Len(f) < 16 \/ SubSeq(f, 1, 4) # ElfMagic
               THEN [parser |-> [p0 EXCEPT !.last_error = "Not a valid ELF file"],
                     ret |-> FALSE]
               ELSE [parser |-> cache_elf_info([p0 EXCEPT !.loaded = TRUE], f,
                                               junk),
                     ret |-> TRUE]

is_valid_elf == parser.loaded

get_elf_info == parser.cached_info

get_sections == parser.cached_info.sections

\* Section{}
NoSection ==
  [name |-> "", address |-> 0, size |-> 0, file_offset |-> 0, type |-> "",
   flags |-> "", data |-> << >>, is_executable |-> FALSE,
   is_writable |-> FALSE, is_readable |-> FALSE]

\* the first section of that name, Section{} without one
get_section(name) ==
  LET named == {i \in 1 .. Len(get_sections) : get_sections[i].name = name}
  IN IF named = {} THEN NoSection
     ELSE get_sections[CHOOSE i \in named : \A j \in named : i <= j]

get_section_data(name) == get_section(name).data

get_code_section_data == get_section_data(".text")

get_entry_point == parser.cached_info.entry_point

detect_architecture == parser.cached_info.architecture

\* Symbol{}
NoSymbol ==
  [name |-> "", address |-> 0, size |-> 0, type |-> "", binding |-> "",
   section_name |-> "", is_function |-> FALSE, is_imported |-> FALSE,
   is_exported |-> FALSE]

\* find_symbol_by_address(address) on the parser ps: the first symbol with
\* symbol.address <= address && address < symbol.address + symbol.size (the
\* sum is one of uint64_t), Symbol{} without one
FindSymbolByAddress(ps, address) ==
  LET symbols == ps.cached_info.symbols
      hits == {i \in 1 .. Len(symbols) :
                 /\ ~ULess(address, symbols[i].address)
                 /\ ULess(address, symbols[i].address + symbols[i].size)}
  IN IF hits = {} THEN NoSymbol
     ELSE symbols[CHOOSE i \in hits : \A j \in hits : i <= j]

\* get_function_name(address) on the parser ps
GetFunctionName(ps, address) ==
  LET symbol == FindSymbolByAddress(ps, address)
  IN IF symbol.name # "" /\ symbol.is_function THEN symbol.name ELSE ""

(***************************************************************************)
(* Disassembler (src/unnamed/part_004).  An instruction is the record that *)
(* convert_cs_instruction builds; mnemonic is a string, operands a tuple   *)
(* of characters (it is searched).                                         *)
(***************************************************************************)
\* std::string::find(sub) != npos
Contains(str, sub) ==
  \E k \in 0 .. Len(str) - Len(sub) : SubSeq(str, k + 1, k + Len(sub)) = sub

\* the decode context cs_open gives for an architecture, when it gives one
Supported == {"X86", "X86_64", "ARM", "ARM64"}

\* the object after initialize(arch); opened is the outcome of cs_open
Initialize(d, arch, opened) ==
  IF arch \in Supported /\ opened
    THEN [current_arch |-> arch, initialized |-> TRUE]
    ELSE [d EXCEPT !.initialized = FALSE]

\* the constructor: the fields are set, then initialize(arch) is called
NewDisassembler(arch, opened) ==
  Initialize([current_arch |-> "UNKNOWN", initialized |-> FALSE], arch, opened)

is_function_start(d, insn) ==
  IF d.current_arch \in {"X86", "X86_64"}
    THEN \/ insn.mnemonic = "push" /\ Contains(insn.operands, << "b", "p" >>)
         \/ insn.mnemonic = "push"
            /\ Contains(insn.operands, << "r", "b", "p" >>)
         \/ insn.mnemonic = "sub" /\ Contains(insn.operands, << "s", "p" >>)
  ELSE IF d.current_arch \in {"ARM", "ARM64"}
    THEN /\ insn.mnemonic \in {"push", "stp"}
         /\ \/ Contains(insn.operands, << "l", "r" >>)
            \/ Contains(insn.operands, << "x", "3", "0" >>)
  ELSE FALSE

\* faulty variant of is_function_end: every instruction ends a function
is_function_end_any(insn) == TRUE

is_function_end(insn) == insn.is_return

\* Function() with the start address and the name set
NewFunction(address) ==
  [start_address |-> address, end_address |-> 0,
   name |-> << "s", "u", "b", "_" >> \o Digits(address, 10),
   instructions |-> << >>, cross_references |-> << >>]

\* faulty variant of the loop of analyze_functions: a prologue opens a
\* function also while one is open
RECURSIVE AnalyzeLoop_reopens(_, _, _, _, _, _)
AnalyzeLoop_reopens(d, instructions, i, functions, current_function, in_function) ==
  IF i > Len(instructions)
    THEN IF in_function
           THEN LET back == instructions[Len(instructions)]
                IN Append(functions,
                          [current_function EXCEPT
                             !.end_address = back.address + back.size])
           ELSE functions
  ELSE LET insn == instructions[i]
           starts == is_function_start(d, insn)
           opened == IF starts THEN NewFunction(insn.address)
                               ELSE current_function
       IN IF ~(in_function \/ starts)
            THEN AnalyzeLoop_reopens(d, instructions, i + 1, functions,
                                     opened, FALSE)
            ELSE LET grown == [opened EXCEPT
                                 !.instructions = Append(@, insn)]
                     closed == [grown EXCEPT
                                  !.end_address = insn.address + insn.size]
                 IN IF is_function_end(insn)
                      THEN AnalyzeLoop_reopens(d, instructions, i + 1,
                                               Append(functions, closed),
                                               closed, FALSE)
                      ELSE AnalyzeLoop_reopens(d, instructions, i + 1,
                                               functions, grown, TRUE)

\* the loop of analyze_functions from the i-th instruction on (i from 1),
\* and what follows the loop
RECURSIVE AnalyzeLoop(_, _, _, _, _, _)
AnalyzeLoop(d, instructions, i, functions, current_function, in_function) ==
  IF i > Len(instructions)
    THEN IF in_function
           THEN LET back == instructions[Len(instructions)]
                IN Append(functions,
                          [current_function EXCEPT
                             !.end_address = back.address + back.size])
           ELSE functions
  ELSE LET insn == instructions[i]
           starts == ~in_function /\ is_function_start(d, insn)
           opened == IF starts THEN NewFunction(insn.address)
                               ELSE current_function
       IN IF ~(in_function \/ starts)
            THEN AnalyzeLoop(d, instructions, i + 1, functions, opened, FALSE)
            ELSE LET grown == [opened EXCEPT
                                 !.instructions = Append(@, insn)]
                     closed == [grown EXCEPT
                                  !.end_address = insn.address + insn.size]
                 IN IF is_function_end(insn)
                      THEN AnalyzeLoop(d, instructions, i + 1,
                                       Append(functions, closed), closed, FALSE)
                      ELSE AnalyzeLoop(d, instructions, i + 1, functions,
                                       grown, TRUE)

\* faulty variant of analyze_functions: a function that is open when the
\* stream ends is not emitted
AnalyzeFunctions_no_tail(d, instructions) ==
  IF instructions = << >> THEN << >>
  ELSE SelectSeq(AnalyzeLoop(d, instructions, 1, << >>, NewFunction(0), FALSE),
                 LAMBDA f : f.instructions[Len(f.instructions)].is_return)

\* analyze_functions(instructions) of the disassembler d: the functions
AnalyzeFunctions(d, instructions) ==
  IF instructions = << >> THEN << >>
  ELSE AnalyzeLoop(d, instructions, 1, << >>, NewFunction(0), FALSE)

(***************************************************************************)
(* The decoder behind cs_disasm (the Capstone library), for the x86 family *)
(* and these instructions; a stream of the model is made of them only.     *)
(*    90               nop                                                 *)
(*    C3               ret                                                 *)
(*    55               push rbp           (push ebp in 32-bit mode)        *)
(*    E8 rel32         call target                                         *)
(*    EB rel8          jmp target                                          *)
(*    FF E0            jmp rax            (jmp eax in 32-bit mode)         *)
(*    FF 25 disp32     jmp qword ptr [rip + disp]                          *)
(*                                        (jmp dword ptr [disp])           *)
(* A decoded instruction (cs_insn) carries its address, mnemonic, operand  *)
(* text (op_str), size, bytes and groups.                                  *)
(***************************************************************************)
OpJmp8 == 16 * 14 + 11
OpGrp5 == 16 * 15 + 15
ModJmpReg == 16 * 14 + 0
ModJmpMem == 16 * 2 + 5
\* the opcode and an 8-bit displacement; opcode, ModRM and a 32-bit one
Jmp8Size == 1 + 1
JmpMemSize == 2 + 4

\* the signed 8-bit displacement b
Rel8(b) == IF b >= 128 THEN b - 256 ELSE b

\* an immediate as the decoder prints it: decimal up to 9, "0x" and
\* hexadecimal digits above
Imm(n) == IF n > 9 THEN HexString(n) ELSE Digits(n, 10)

\* the instruction at offset off (from 0) of data when its address is
\* address, in a tuple; the empty tuple when the bytes there decode to none
DecodeOne(arch, data, off, address) ==
  LET b == data[off + 1]
      has(k) == off + k <= Len(data)
      wide == arch = "X86_64"
      insn(m, o, k, g) ==
        [address |-> address, mnemonic |-> m, op_str |-> o, size |-> k,
         bytes |-> SubSeq(data, off + 1, off + k), groups |-> g]
  IN CASE b = OpNop -> << insn("nop", << >>, 1, {}) >>
       [] b = OpRet -> << insn("ret", << >>, 1, {"RET"}) >>
       [] b = OpPushBp ->
            << insn("push", << IF wide THEN "r" ELSE "e", "b", "p" >>,
                    1, {}) >>
       [] b = OpCall /\ has(CallSize) ->
            << insn("call", Imm(address + CallSize + Rel32(data, off + 2)),
                    CallSize, {"CALL"}) >>
       [] b = OpJmp8 /\ has(Jmp8Size) ->
            << insn("jmp", Imm(address + Jmp8Size + Rel8(data[off + 2])),
                    Jmp8Size, {"JUMP"}) >>
       [] b = OpGrp5 /\ has(2) /\ data[off + 2] = ModJmpReg ->
            << insn("jmp", << IF wide THEN "r" ELSE "e", "a", "x" >>,
                    2, {"JUMP"}) >>
       [] b = OpGrp5 /\ has(JmpMemSize) /\ data[off + 2] = ModJmpMem ->
            << insn("jmp",
                    << IF wide THEN "q" ELSE "d", "w", "o", "r", "d", " ",
                       "p", "t", "r", " ", "[" >>
                    \o (IF wide THEN << "r", "i", "p", " ", "+", " " >>
                                ELSE << >>)
                    \o Imm(Rel32(data, off + 3)) \o << "]" >>,
                    JmpMemSize, {"JUMP"}) >>
       [] OTHER -> << >>

\* cs_disasm from offset off on: it stops at the end of data and at the first
\* bytes that decode to no instruction
RECURSIVE DecodeFrom(_, _, _, _)
DecodeFrom(arch, data, off, base_address) ==
  IF off >= Len(data) THEN << >>
  ELSE LET one == DecodeOne(arch, data, off, base_address + off)
       IN IF one = << >> THEN << >>
          ELSE one \o DecodeFrom(arch, data, off + one[1].size, base_address)

\* cs_disasm(cs_handle, data, size, base_address, 0, &insn): the handle
\* decodes for the architecture of the last successful initialize
cs_disasm(d, data, base_address) ==
  DecodeFrom(d.current_arch, data, 0, base_address)

\* std::string::find(sub): the first position (from 0) of sub in str
Find(str, sub) ==
  CHOOSE k \in 0 .. Len(str) - Len(sub) :
    /\ SubSeq(str, k + 1, k + Len(sub)) = sub
    /\ \A j \in 0 .. k - 1 : SubSeq(str, j + 1, j + Len(sub)) # sub

UpperHexDigits == << "A", "B", "C", "D", "E", "F" >>

\* std::isxdigit
IsXDigit(c) ==
  \/ \E i \in 1 .. Len(HexDigits) : HexDigits[i] = c
  \/ \E i \in 1 .. Len(UpperHexDigits) : UpperHexDigits[i] = c

DigitValue(c) ==
  IF \E i \in 1 .. Len(HexDigits) : HexDigits[i] = c
    THEN (CHOOSE i \in 1 .. Len(HexDigits) : HexDigits[i] = c) - 1
    ELSE (CHOOSE i \in 1 .. Len(UpperHexDigits) : UpperHexDigits[i] = c) + 9

\* the number of hexadecimal digits str begins with
RECURSIVE XDigitRun(_)
XDigitRun(str) ==
  IF str # << >> /\ IsXDigit(Head(str)) THEN 1 + XDigitRun(Tail(str)) ELSE 0

\* std::stoull(digits, nullptr, 16); the numbers of the model fit 64 bits
RECURSIVE Stoull16(_)
Stoull16(digits) ==
  IF digits = << >> THEN 0
  ELSE 16 * Stoull16(SubSeq(digits, 1, Len(digits) - 1))
       + DigitValue(digits[Len(digits)])

\* the number behind the first "0x" of the operand text, 0 without one
extract_target_address(insn) ==
  LET operands == insn.operands
  IN IF Contains(operands, << "0", "x" >>)
       THEN LET pos == Find(operands, << "0", "x" >>)
                hex_str == SubSeq(operands, pos + 3, Len(operands))
                end_pos == XDigitRun(hex_str)
            IN IF end_pos > 0 THEN Stoull16(SubSeq(hex_str, 1, end_pos))
                              ELSE 0
       ELSE 0

\* faulty variant of convert_cs_instruction: the address is not copied
convert_cs_instruction_no_address(insn) ==
  LET instruction ==
        [address |-> 0, mnemonic |-> insn.mnemonic,
         operands |-> insn.op_str, size |-> insn.size, bytes |-> insn.bytes,
         is_jump |-> "JUMP" \in insn.groups,
         is_call |-> "CALL" \in insn.groups,
         is_return |-> "RET" \in insn.groups, target_address |-> 0]
  IN IF instruction.is_jump \/ instruction.is_call
       THEN [instruction EXCEPT
               !.target_address = extract_target_address(instruction)]
       ELSE instruction

\* the Instruction made of a decoded instruction (the decoder gives the
\* detail: initialize switches CS_OPT_DETAIL on)
convert_cs_instruction(insn) ==
  LET instruction ==
        [address |-> insn.address, mnemonic |-> insn.mnemonic,
         operands |-> insn.op_str, size |-> insn.size, bytes |-> insn.bytes,
         is_jump |-> "JUMP" \in insn.groups,
         is_call |-> "CALL" \in insn.groups,
         is_return |-> "RET" \in insn.groups, target_address |-> 0]
  IN IF instruction.is_jump \/ instruction.is_call
       THEN [instruction EXCEPT
               !.target_address = extract_target_address(instruction)]
       ELSE instruction

\* disassemble(data, size, base_address) of the disassembler d; data is the
\* tuple of the size bytes
Disassemble(d, data, base_address) ==
  IF ~d.initialized \/ Len(data) = 0 THEN << >>
  ELSE LET insn == cs_disasm(d, data, base_address)
       IN [i \in 1 .. Len(insn) |-> convert_cs_instruction(insn[i])]

\* std::isprint in the "C" locale
IsPrint(c) == c >= 32 /\ c <= 126

\* the loop of extract_strings from the i-th byte on (i from 1); nothing
\* follows the loop
RECURSIVE ExtractLoop(_, _, _, _)
ExtractLoop(data, i, strings, current_string) ==
  IF i > Len(data) THEN strings
  ELSE IF IsPrint(data[i]) /\ data[i] # 0
    THEN ExtractLoop(data, i + 1, strings, Append(current_string, data[i]))
    ELSE ExtractLoop(data, i + 1,
                     IF Len(current_string) >= 4
                       THEN Append(strings, current_string) ELSE strings,
                     << >>)

\* extract_strings(data, size): a string is the tuple of its bytes
ExtractStrings(data) == ExtractLoop(data, 1, << >>, << >>)

\* faulty variant of the loop of find_cross_references: the target is pushed
RECURSIVE XrefLoop_targets(_, _, _, _)
XrefLoop_targets(address, instructions, i, xrefs) ==
  IF i > Len(instructions) THEN xrefs
  ELSE LET insn == instructions[i]
       IN XrefLoop_targets(address, instructions, i + 1,
            IF (insn.is_jump \/ insn.is_call) /\ insn.target_address = address
              THEN Append(xrefs, insn.target_address) ELSE xrefs)

\* the loop of find_cross_references from the i-th instruction on (i from 1)
RECURSIVE XrefLoop(_, _, _, _)
XrefLoop(address, instructions, i, xrefs) ==
  IF i > Len(instructions) THEN xrefs
  ELSE LET insn == instructions[i]
       IN XrefLoop(address, instructions, i + 1,
            IF (insn.is_jump \/ insn.is_call) /\ insn.target_address = address
              THEN Append(xrefs, insn.address) ELSE xrefs)

\* find_cross_references(address, instructions): the addresses
FindCrossReferences(address, instructions) ==
  XrefLoop(address, instructions, 1, << >>)

(***************************************************************************)
(* Project (src/src/core/project.cpp): breakpoint definitions, comments    *)
(* and labels, saved to and loaded from a text file of key=value lines.    *)
(* A text is a tuple of characters, a file the tuple of its lines.  The    *)
(* lists analyzed_functions and defined_functions of the analysis data     *)
(* stay empty (no operation of the model adds to them) and save writes     *)
(* nothing for an empty list.                                              *)
(***************************************************************************)
\* ProjectInfo() with the version set
NewInfo ==
  [name |-> << >>, description |-> << >>, binary_path |-> << >>,
   symbol_file |-> << >>, created_date |-> << >>, last_modified |-> << >>,
   version |-> << "1", ".", "0" >>]

\* std::map<uint64_t, std::string>(): no key
NoTexts == [a \in {} |-> << >>]

\* the object after the constructor
NewProject ==
  [project_info |-> NewInfo, breakpoints |-> << >>, comments |-> NoTexts,
   labels |-> NoTexts, project_file_path |-> "", loaded |-> FALSE,
   modified |-> FALSE]

\* BreakpointInfo()
NoBreakpointInfo ==
  [address |-> 0, type |-> << >>, enabled |-> FALSE, condition |-> << >>,
   name |-> << >>]

\* clear()
Clear(p) ==
  [p EXCEPT !.project_info = NewInfo, !.breakpoints = << >>,
            !.comments = NoTexts, !.labels = NoTexts]

\* the keys of a std::map in the order of its iteration
RECURSIVE KeysInOrder(_)
KeysInOrder(keys) ==
  IF keys = {} THEN << >>
  ELSE LET least == CHOOSE a \in keys : \A b \in keys : a <= b
       IN << least >> \o KeysInOrder(keys \ {least})

\* key="value"
Quoted(key, value) == key \o << "=", "\"" >> \o value \o << "\"" >>

\* the lines save writes for the breakpoint bp of index i (from 0)
BreakpointLines(i, bp) ==
  LET bpi == << "b", "p" >> \o Digits(i, 10)
  IN << bpi \o << "_", "a", "d", "d", "r", "e", "s", "s", "=", "0",
        "x" >> \o Digits(bp.address, 16),
        Quoted(bpi \o << "_", "t", "y", "p", "e" >>, bp.type),
        bpi \o << "_", "e", "n", "a", "b", "l", "e", "d",
              "=" >> \o (IF bp.enabled THEN << "t", "r", "u",
                    "e" >> ELSE << "f", "a", "l", "s", "e" >>) >>
     \o (IF bp.condition # << >>
           THEN << Quoted(bpi \o << "_", "c", "o", "n", "d", "i", "t", "i",
                 "o", "n" >>, bp.condition) >> ELSE << >>)
     \o (IF bp.name # << >>
           THEN << Quoted(bpi \o << "_", "n", "a", "m",
                 "e" >>, bp.name) >> ELSE << >>)

\* the lines save writes for a map of texts: prefix, "0x", the address in
\* hexadecimal digits, and the quoted text
TextLines(prefix, texts) ==
  LET keys == KeysInOrder(DOMAIN texts)
  IN [k \in 1 .. Len(keys) |->
        Quoted(prefix \o << "0",
              "x" >> \o Digits(keys[k], 16), texts[keys[k]])]

\* save(filename) of the project p at the time now: the object it leaves
\* and the lines of the file
Save(p, filename, now) ==
  LET info == [p.project_info EXCEPT
                 !.created_date = IF @ = << >> THEN now ELSE @,
                 !.last_modified = now]
      bps == p.breakpoints
  IN [project |-> [p EXCEPT !.project_info = info,
                            !.project_file_path = filename,
                            !.modified = FALSE],
      lines |->
        << << "#", " ", "D", "e", "b", "u", "g", "g", "e", "r", " ", "P",
              "r", "o", "j", "e", "c", "t", " ", "F", "i", "l", "e" >>,
           << "#", " ", "G", "e", "n", "e", "r", "a", "t", "e", "d", ":",
                 " " >> \o info.last_modified,
           << >>,
           << "[", "p", "r", "o", "j", "e", "c", "t", "]" >>,
           Quoted(<< "n", "a", "m", "e" >>, info.name),
           Quoted(<< "d", "e", "s", "c", "r", "i", "p", "t", "i", "o",
                 "n" >>, info.description),
           Quoted(<< "b", "i", "n", "a", "r", "y", "_", "p", "a", "t",
                 "h" >>, info.binary_path),
           Quoted(<< "s", "y", "m", "b", "o", "l", "_", "f", "i", "l",
                 "e" >>, info.symbol_file),
           Quoted(<< "c", "r", "e", "a", "t", "e", "d", "_", "d", "a", "t",
                 "e" >>, info.created_date),
           Quoted(<< "l", "a", "s", "t", "_", "m", "o", "d", "i", "f", "i",
                 "e", "d" >>, info.last_modified),
           Quoted(<< "v", "e", "r", "s", "i", "o", "n" >>, info.version),
           << >> >>
        \o (IF bps # << >>
              THEN << << "[", "b", "r", "e", "a", "k", "p", "o", "i", "n",
                    "t", "s", "]" >> >>
                   \o Flatten([i \in 1 .. Len(bps) |->
                                 BreakpointLines(i - 1, bps[i])])
                   \o << << >> >>
              ELSE << >>)
        \o << << "[", "a", "n", "a", "l", "y", "s", "i", "s", "]" >> >>
        \o TextLines(<< "c", "o", "m", "m", "e", "n", "t", "_" >>, p.comments)
        \o TextLines(<< "l", "a", "b", "e", "l", "_" >>, p.labels)]

\* line.erase(0, line.find_first_not_of(" \t")) and
\* line.erase(line.find_last_not_of(" \t") + 1)
Trim(line) ==
  LET inked == {k \in 1 .. Len(line) : line[k] \notin {" ", "\t"}}
  IN IF inked = {} THEN << >>
     ELSE SubSeq(line, CHOOSE k \in inked : \A j \in inked : k <= j,
                 CHOOSE k \in inked : \A j \in inked : j <= k)

\* faulty variant of Unquote: every quote at the ends is removed
Unquote_every(value) ==
  LET inner == {k \in 1 .. Len(value) : value[k] # "\""}
  IN IF inner = {} THEN << >>
     ELSE SubSeq(value, CHOOSE k \in inner : \A j \in inner : k <= j,
                 CHOOSE k \in inner : \A j \in inner : j <= k)

\* the value without its quotes, if it stands in quotes
Unquote(value) ==
  IF Len(value) >= 2 /\ value[1] = "\"" /\ value[Len(value)] = "\""
    THEN SubSeq(value, 2, Len(value) - 1)
    ELSE value

\* std::stoi(str) and std::stoull(str, nullptr, 16) of a text that begins
\* with digits (after "0x" for the latter), as the keys and values that save
\* writes do
RECURSIVE Decimal(_)
Decimal(digits) ==
  IF digits = << >> THEN 0
  ELSE 10 * Decimal(SubSeq(digits, 1, Len(digits) - 1))
       + DigitValue(digits[Len(digits)])
Stoi(str) ==
  LET others == {k \in 1 .. Len(str) :
                   ~\E d \in 1 .. 10 : HexDigits[d] = str[k]}
      run == IF others = {} THEN Len(str)
             ELSE (CHOOSE k \in others : \A j \in others : k <= j) - 1
  IN Decimal(SubSeq(str, 1, run))
Stoull(str) ==
  LET digits == IF Len(str) >= 2 /\ SubSeq(str, 1, 2) \in {<< "0",
        "x" >>, << "0", "X" >>}
                  THEN SubSeq(str, 3, Len(str)) ELSE str
  IN Stoull16(SubSeq(digits, 1, XDigitRun(digits)))

\* the breakpoints with BreakpointInfo() appended until the index (from 0)
\* exists
RECURSIVE Grown(_, _)
Grown(bps, bp_index) ==
  IF Len(bps) <= bp_index THEN Grown(Append(bps, NoBreakpointInfo), bp_index)
  ELSE bps

parse_breakpoint_data(p, key, value) ==
  IF ~Contains(key, << "_" >>) THEN p
  ELSE LET underscore_pos == Find(key, << "_" >>)
           bp_prefix == SubSeq(key, 1, underscore_pos)
           property == SubSeq(key, underscore_pos + 2, Len(key))
           bp_index == Stoi(SubSeq(bp_prefix, 3, Len(bp_prefix)))
           bps == Grown(p.breakpoints, bp_index)
           bp == bps[bp_index + 1]
           set == CASE property = << "a", "d", "d", "r", "e", "s", "s" >> ->
                         [bp EXCEPT !.address = Stoull(value)]
                    [] property = << "t", "y", "p",
                          "e" >> -> [bp EXCEPT !.type = value]
                    [] property = << "e", "n", "a", "b", "l", "e", "d" >> ->
                         [bp EXCEPT !.enabled = (value = << "t", "r", "u",
                               "e" >>)]
                    [] property = << "c", "o", "n", "d", "i", "t", "i", "o",
                          "n" >> ->
                         [bp EXCEPT !.condition = value]
                    [] property = << "n", "a", "m",
                          "e" >> -> [bp EXCEPT !.name = value]
                    [] OTHER -> bp
       IN [p EXCEPT !.breakpoints = [bps EXCEPT ![bp_index + 1] = set]]

\* m[address] = text
Put(m, address, text) ==
  [a \in DOMAIN m \cup {address} |-> IF a = address THEN text ELSE m[a]]

\* str.substr(pos, n)
Substr(str, pos, n) ==
  SubSeq(str, pos + 1, IF pos + n < Len(str) THEN pos + n ELSE Len(str))

parse_analysis_data(p, key, value) ==
  IF Substr(key, 0, 8) = << "c", "o", "m", "m", "e", "n", "t", "_" >>
    THEN [p EXCEPT !.comments =
                     Put(@, Stoull(SubSeq(key, 9, Len(key))), value)]
  ELSE IF Substr(key, 0, 6) = << "l", "a", "b", "e", "l", "_" >>
    THEN [p EXCEPT !.labels =
                     Put(@, Stoull(SubSeq(key, 7, Len(key))), value)]
  ELSE p

parse_project_data(p, section, key, value) ==
  IF section = << "p", "r", "o", "j", "e", "c", "t" >>
    THEN CASE key = << "n", "a", "m",
          "e" >> -> [p EXCEPT !.project_info.name = value]
           [] key = << "d", "e", "s", "c", "r", "i", "p", "t", "i", "o",
                 "n" >> ->
                [p EXCEPT !.project_info.description = value]
           [] key = << "b", "i", "n", "a", "r", "y", "_", "p", "a", "t",
                 "h" >> ->
                [p EXCEPT !.project_info.binary_path = value]
           [] key = << "s", "y", "m", "b", "o", "l", "_", "f", "i", "l",
                 "e" >> ->
                [p EXCEPT !.project_info.symbol_file = value]
           [] key = << "c", "r", "e", "a", "t", "e", "d", "_", "d", "a",
                 "t", "e" >> ->
                [p EXCEPT !.project_info.created_date = value]
           [] key = << "l", "a", "s", "t", "_", "m", "o", "d", "i", "f",
                 "i", "e", "d" >> ->
                [p EXCEPT !.project_info.last_modified = value]
           [] key = << "v", "e", "r", "s", "i", "o",
                 "n" >> -> [p EXCEPT !.project_info.version = value]
           [] OTHER -> p
  ELSE IF section = << "b", "r", "e", "a", "k", "p", "o", "i", "n", "t",
        "s" >> THEN parse_breakpoint_data(p, key, value)
  ELSE IF section = << "a", "n", "a", "l", "y", "s", "i",
        "s" >> THEN parse_analysis_data(p, key, value)
  ELSE p

\* the loop of load from the i-th line on (i from 1)
RECURSIVE LoadLoop(_, _, _, _)
LoadLoop(p, lines, i, current_section) ==
  IF i > Len(lines) THEN p
  ELSE LET line == Trim(lines[i])
       IN IF line = << >> \/ line[1] = "#"
            THEN LoadLoop(p, lines, i + 1, current_section)
          ELSE IF line[1] = "[" /\ line[Len(line)] = "]"
            THEN LoadLoop(p, lines, i + 1, SubSeq(line, 2, Len(line) - 1))
          ELSE IF ~Contains(line, << "=" >>)
            THEN LoadLoop(p, lines, i + 1, current_section)
          ELSE LET equals_pos == Find(line, << "=" >>)
                   key == SubSeq(line, 1, equals_pos)
                   value == Unquote(SubSeq(line, equals_pos + 2, Len(line)))
               IN LoadLoop(parse_project_data(p, current_section, key, value),
                           lines, i + 1, current_section)

\* load(filename) of the project p at the time now, when the file can be
\* opened and has these lines
Load(p, filename, lines, now) ==
  LET read == LoadLoop([Clear(p) EXCEPT !.project_file_path = filename],
                       lines, 1, << >>)
  IN [read EXCEPT !.loaded = TRUE, !.modified = FALSE,
                  !.project_info.last_modified = now]

\* the file system holds no project file
NoFile == [exists |-> FALSE, lines |-> << >>]

\* the value get_current_timestamp returns
Now == << "1", "9", "7", "0", "-", "0", "1", "-", "0", "1", " ", "0", "0",
      ":", "0", "0", ":", "0", "0" >>

TypeOK ==
  /\ target_pid \in Pids \cup {NoPid}
  /\ current_state \in {"NOT_RUNNING", "RUNNING", "PAUSED", "STOPPED", "ERROR"}
  /\ executable_path \in {"", "a.out"}
  /\ DOMAIN breakpoints \subseteq Addrs
  /\ op \notin {"read_memory", "analyze_functions", "disassemble",
                "extract_strings", "find_cross_references",
                "find_symbol_by_address", "get_function_name", "open_file",
                "on_action_analyze_functions_triggered"} => ret \in BOOLEAN
  /\ parser.loaded \in BOOLEAN
  /\ project.modified \in BOOLEAN
  /\ disk.exists \in BOOLEAN
  /\ disasm.current_arch \in Archs

\* the engine after its constructor, and the processes of the system
EngineInit ==
  /\ target_pid = NoPid
  /\ current_state = "NOT_RUNNING"
  /\ executable_path = ""
  /\ breakpoints = [a \in {} |-> 0]
  /\ last_error = ""
  /\ proc = [p \in Pids |-> IF p = 1 THEN FreshProc("free") ELSE NoProc]
  /\ mem = [p \in Pids |-> Image]
  /\ op = "DebuggerEngine"
  /\ ret = TRUE
  /\ preAdd = [a \in {} |-> 0]

\* a parser and a disassembler exist next to the engine
Init ==
  /\ EngineInit
  /\ parser = FreshParser("UNKNOWN", 0, FALSE, FALSE)
  /\ disasm = NewDisassembler("X86_64", TRUE)
  /\ arg = << >>
  /\ project = NewProject
  /\ disk = NoFile

Return(o, v) == op' = o /\ ret' = v

Fail(o, msg) ==
  /\ last_error' = msg
  /\ Return(o, FALSE)

\* a function with the argument a removed, and with a set to v
Erase(f, a) == [x \in DOMAIN f \ {a} |-> f[x]]
Assign(f, a, v) == [x \in DOMAIN f \cup {a} |-> IF x = a THEN v ELSE f[x]]

\* the states the target may be in by the time of a handler's next system
\* call: a running tracee may have moved on and stopped
Moves(p) ==
  IF p \in Pids /\ proc[p].status = "running"
    THEN {proc[p], Advance(proc[p], mem[p])}
    ELSE IF p \in Pids THEN {proc[p]} ELSE {NoProc}

(***************************************************************************)
(* Process control.                                                        *)
(***************************************************************************)
\* faulty variant of attach_to_process: the pid and the state are recorded
\* before the outcome of PTRACE_ATTACH is known
attach_to_process_eager(pid) ==
  /\ target_pid' = pid
  /\ current_state' = "PAUSED"
  /\ IF proc[pid].status # "free"
       THEN /\ Fail("attach_to_process", "Failed to attach to process")
            /\ UNCHANGED << executable_path, breakpoints, proc, mem, preAdd, objects >>
       ELSE /\ proc' = [proc EXCEPT ![pid] = [@ EXCEPT !.status = "stopped",
                                                       !.sigstop = FALSE,
                                                       !.notify = FALSE]]
            /\ Return("attach_to_process", TRUE)
            /\ UNCHANGED << executable_path, breakpoints, last_error, mem,
                            preAdd, objects >>

attach_to_process(pid) ==
  IF proc[pid].status # "free"
    THEN /\ Fail("attach_to_process", "Failed to attach to process")
         /\ UNCHANGED << target_pid, current_state, executable_path,
                         breakpoints, proc, mem, preAdd, objects >>
    ELSE /\ target_pid' = pid
         /\ current_state' = "PAUSED"
         /\ proc' = [proc EXCEPT ![pid] = [@ EXCEPT !.status = "stopped",
                                                    !.sigstop = FALSE,
                                                    !.notify = FALSE]]
         /\ Return("attach_to_process", TRUE)
         /\ UNCHANGED << executable_path, breakpoints, last_error, mem, preAdd, objects >>

load_executable(path) ==
  /\ executable_path' = path
  /\ Return("load_executable", TRUE)
  /\ UNCHANGED << target_pid, current_state, breakpoints, last_error,
                  proc, mem, preAdd, objects >>

\* fork hands out the lowest unused process id, and fails when there is none
FreePids == {p \in Pids : proc[p].status = "none"}
ForkPid == CHOOSE p \in FreePids : \A q \in FreePids : p <= q

start_process ==
  IF executable_path = ""
    THEN /\ Fail("start_process", "No executable loaded")
         /\ UNCHANGED << target_pid, current_state, executable_path,
                         breakpoints, proc, mem, preAdd, objects >>
    ELSE IF FreePids = {}
      THEN /\ Fail("start_process", "Failed to fork process")
           /\ UNCHANGED << target_pid, current_state, executable_path,
                           breakpoints, proc, mem, preAdd, objects >>
      ELSE \E execs \in BOOLEAN :
           \* the child stops at its first instruction, or execv fails and
           \* the child exits: waitpid returns in both cases
           /\ target_pid' = ForkPid
           /\ current_state' = "PAUSED"
           /\ proc' = [proc EXCEPT ![ForkPid] =
                         IF execs THEN FreshProc("stopped") ELSE NoProc]
           /\ mem' = [mem EXCEPT ![ForkPid] = Image]
           /\ preAdd' = [a \in {x \in DOMAIN preAdd : preAdd[x].pid # ForkPid}
                           |-> preAdd[a]]
           /\ Return("start_process", TRUE)
           /\ UNCHANGED << executable_path, breakpoints, last_error, objects >>

\* faulty variant of continue_execution: the state is set to RUNNING before
\* the outcome of PTRACE_CONT is known
continue_execution_eager ==
  IF target_pid = NoPid
    THEN /\ Fail("continue_execution", "No process attached")
         /\ UNCHANGED << target_pid, current_state, executable_path,
                         breakpoints, proc, mem, preAdd, objects >>
    ELSE /\ current_state' = "RUNNING"
         /\ IF ~CanTrace(target_pid)
              THEN /\ Fail("continue_execution", "Failed to continue execution")
                   /\ UNCHANGED << target_pid, executable_path, breakpoints,
                                   proc, mem, preAdd, objects >>
              ELSE /\ proc' = [proc EXCEPT ![target_pid] =
                                 [@ EXCEPT !.status = "running",
                                           !.notify = FALSE]]
                   /\ Return("continue_execution", TRUE)
                   /\ UNCHANGED << target_pid, executable_path, breakpoints,
                                   last_error, mem, preAdd, objects >>

continue_execution ==
  IF target_pid = NoPid
    THEN /\ Fail("continue_execution", "No process attached")
         /\ UNCHANGED << target_pid, current_state, executable_path,
                         breakpoints, proc, mem, preAdd, objects >>
    ELSE IF ~CanTrace(target_pid)
      THEN /\ Fail("continue_execution", "Failed to continue execution")
           /\ UNCHANGED << target_pid, current_state, executable_path,
                           breakpoints, proc, mem, preAdd, objects >>
      ELSE /\ proc' = [proc EXCEPT ![target_pid] =
                         [@ EXCEPT !.status = "running", !.notify = FALSE]]
           /\ current_state' = "RUNNING"
           /\ Return("continue_execution", TRUE)
           /\ UNCHANGED << target_pid, executable_path, breakpoints,
                           last_error, mem, preAdd, objects >>

\* kill(pid, sig) succeeds for every existing process, a zombie included
pause_execution ==
  IF target_pid = NoPid
    THEN /\ Fail("pause_execution", "No process attached")
         /\ UNCHANGED << target_pid, current_state, executable_path,
                         breakpoints, proc, mem, preAdd, objects >>
    ELSE IF ~Exists(target_pid)
      THEN /\ Fail("pause_execution", "Failed to pause execution")
           /\ UNCHANGED << target_pid, current_state, executable_path,
                           breakpoints, proc, mem, preAdd, objects >>
      ELSE /\ proc' = [proc EXCEPT ![target_pid] =
                         IF @.status = "zombie" THEN @
                         ELSE [@ EXCEPT !.sigstop = TRUE]]
           /\ current_state' = "PAUSED"
           /\ Return("pause_execution", TRUE)
           /\ UNCHANGED << target_pid, executable_path, breakpoints,
                           last_error, mem, preAdd, objects >>

\* faulty variant of stop_execution: the process id is not cleared
stop_execution_keeps_pid ==
  IF target_pid = NoPid
    THEN /\ Fail("stop_execution", "No process attached")
         /\ UNCHANGED << target_pid, current_state, executable_path,
                         breakpoints, proc, mem, preAdd, objects >>
    ELSE IF ~Exists(target_pid)
      THEN /\ Fail("stop_execution", "Failed to stop execution")
           /\ UNCHANGED << target_pid, current_state, executable_path,
                           breakpoints, proc, mem, preAdd, objects >>
      ELSE /\ proc' = [proc EXCEPT ![target_pid] =
                         IF @.status = "zombie" THEN @ ELSE Die(@)]
           /\ current_state' = "STOPPED"
           /\ Return("stop_execution", TRUE)
           /\ UNCHANGED << target_pid, executable_path, breakpoints,
                           last_error, mem, preAdd, objects >>

stop_execution ==
  IF target_pid = NoPid
    THEN /\ Fail("stop_execution", "No process attached")
         /\ UNCHANGED << target_pid, current_state, executable_path,
                         breakpoints, proc, mem, preAdd, objects >>
    ELSE IF ~Exists(target_pid)
      THEN /\ Fail("stop_execution", "Failed to stop execution")
           /\ UNCHANGED << target_pid, current_state, executable_path,
                           breakpoints, proc, mem, preAdd, objects >>
      ELSE /\ proc' = [proc EXCEPT ![target_pid] =
                         IF @.status = "zombie" THEN @ ELSE Die(@)]
           /\ current_state' = "STOPPED"
           /\ target_pid' = NoPid
           /\ Return("stop_execution", TRUE)
           /\ UNCHANGED << executable_path, breakpoints, last_error, mem,
                           preAdd, objects >>

\* faulty variant of detach: the state is not reset
detach_keeps_state ==
  IF target_pid = NoPid
    THEN /\ Fail("detach", "No process attached")
         /\ UNCHANGED << target_pid, current_state, executable_path,
                         breakpoints, proc, mem, preAdd, objects >>
    ELSE IF ~CanTrace(target_pid)
      THEN /\ Fail("detach", "Failed to detach from process")
           /\ UNCHANGED << target_pid, current_state, executable_path,
                           breakpoints, proc, mem, preAdd, objects >>
      ELSE /\ proc' = [proc EXCEPT ![target_pid] =
                         [@ EXCEPT !.status = "free", !.notify = FALSE,
                                   !.sigstop = FALSE]]
           /\ target_pid' = NoPid
           /\ Return("detach", TRUE)
           /\ UNCHANGED << current_state, executable_path, breakpoints,
                           last_error, mem, preAdd, objects >>

\* PTRACE_DETACH resumes the process untraced
detach ==
  IF target_pid = NoPid
    THEN /\ Fail("detach", "No process attached")
         /\ UNCHANGED << target_pid, current_state, executable_path,
                         breakpoints, proc, mem, preAdd, objects >>
    ELSE IF ~CanTrace(target_pid)
      THEN /\ Fail("detach", "Failed to detach from process")
           /\ UNCHANGED << target_pid, current_state, executable_path,
                           breakpoints, proc, mem, preAdd, objects >>
      ELSE /\ proc' = [proc EXCEPT ![target_pid] =
                         [@ EXCEPT !.status = "free", !.notify = FALSE,
                                   !.sigstop = FALSE]]
           /\ target_pid' = NoPid
           /\ current_state' = "NOT_RUNNING"
           /\ Return("detach", TRUE)
           /\ UNCHANGED << executable_path, breakpoints, last_error, mem,
                           preAdd, objects >>

(***************************************************************************)
(* Stepping.                                                               *)
(***************************************************************************)
StepInto(o) ==
  IF target_pid = NoPid
    THEN /\ Fail(o, "No process attached")
         /\ UNCHANGED << target_pid, current_state, executable_path,
                         breakpoints, proc, mem, preAdd, objects >>
    ELSE IF ~CanTrace(target_pid)
      THEN /\ Fail(o, "Failed to single step")
           /\ UNCHANGED << target_pid, current_state, executable_path,
                           breakpoints, proc, mem, preAdd, objects >>
      ELSE /\ proc' = [proc EXCEPT ![target_pid] =
                         SingleStep(@, mem[target_pid])]
           /\ Return(o, TRUE)
           /\ UNCHANGED << engine, mem, preAdd, objects >>

step_into == StepInto("step_into")

step_over == StepInto("step_over")

step_out ==
  /\ Fail("step_out", "Step out not implemented yet")
  /\ UNCHANGED << target_pid, current_state, executable_path, breakpoints,
                  proc, mem, preAdd, objects >>

(***************************************************************************)
(* Breakpoints.                                                            *)
(***************************************************************************)
\* faulty variant of insert_software_breakpoint: the entry is stored in the
\* table before the trap opcode is written
insert_software_breakpoint_early(o, address) ==
  IF ~(CanTrace(target_pid) /\ Mapped(address))
    THEN /\ Fail(o, "Failed to read memory at breakpoint address")
         /\ UNCHANGED << target_pid, current_state, executable_path,
                         breakpoints, proc, mem, preAdd, objects >>
    ELSE LET data == PeekWord(mem[target_pid], address)
             bp == [address |-> address, type |-> "SOFTWARE", enabled |-> TRUE,
                    original_byte |-> LowByte(data), hit_count |-> 0]
             new_data == WithLowByte(data, INT3)
         IN /\ breakpoints' = Assign(breakpoints, address, bp)
            /\ IF ~Writable(address)
                 THEN /\ Fail(o, "Failed to write breakpoint instruction")
                      /\ UNCHANGED << target_pid, current_state,
                                      executable_path, proc, mem, preAdd, objects >>
                 ELSE /\ mem' = [mem EXCEPT ![target_pid] =
                                   PokeWord(@, address, new_data)]
                      /\ preAdd' = Assign(preAdd, address,
                                          [pid |-> target_pid,
                                           byte |-> mem[target_pid][address]])
                      /\ Return(o, TRUE)
                      /\ UNCHANGED << target_pid, current_state,
                                      executable_path, last_error, proc, objects >>

insert_software_breakpoint(o, address) ==
  IF ~(CanTrace(target_pid) /\ Mapped(address))
    THEN /\ Fail(o, "Failed to read memory at breakpoint address")
         /\ UNCHANGED << target_pid, current_state, executable_path,
                         breakpoints, proc, mem, preAdd, objects >>
    ELSE LET data == PeekWord(mem[target_pid], address)
             bp == [address |-> address, type |-> "SOFTWARE", enabled |-> TRUE,
                    original_byte |-> LowByte(data), hit_count |-> 0]
             new_data == WithLowByte(data, INT3)
         IN IF ~Writable(address)
              THEN /\ Fail(o, "Failed to write breakpoint instruction")
                   /\ UNCHANGED << target_pid, current_state, executable_path,
                                   breakpoints, proc, mem, preAdd, objects >>
              ELSE /\ mem' = [mem EXCEPT ![target_pid] =
                                PokeWord(@, address, new_data)]
                   /\ breakpoints' = Assign(breakpoints, address, bp)
                   /\ preAdd' = Assign(preAdd, address,
                                       [pid |-> target_pid,
                                        byte |-> mem[target_pid][address]])
                   /\ Return(o, TRUE)
                   /\ UNCHANGED << target_pid, current_state, executable_path,
                                   last_error, proc, objects >>

add_breakpoint(address, type) ==
  IF target_pid = NoPid
    THEN /\ Fail("add_breakpoint", "No process attached")
         /\ UNCHANGED << target_pid, current_state, executable_path,
                         breakpoints, proc, mem, preAdd, objects >>
    ELSE IF type = "SOFTWARE"
      THEN insert_software_breakpoint("add_breakpoint", address)
      ELSE /\ Fail("add_breakpoint", "Hardware breakpoints not implemented")
           /\ UNCHANGED << target_pid, current_state, executable_path,
                           breakpoints, proc, mem, preAdd, objects >>

\* The word read is not checked: when it fails its value is -1.  The tracee
\* may have stopped between the read and the write (pr is its state at the
\* write).
remove_software_breakpoint(o, address) ==
  IF address \notin DOMAIN breakpoints
    THEN /\ Fail(o, "Breakpoint not found")
         /\ UNCHANGED << target_pid, current_state, executable_path,
                         breakpoints, proc, mem, preAdd, objects >>
    ELSE \E pr \in Moves(target_pid) :
         LET data == IF CanTrace(target_pid) /\ Mapped(address)
                       THEN PeekWord(mem[target_pid], address)
                       ELSE MinusOne
             new_data == WithLowByte(data, breakpoints[address].original_byte)
         IN IF ~(target_pid \in Pids /\ Stopped(pr) /\ Writable(address))
              THEN /\ Fail(o, "Failed to restore original instruction")
                   /\ proc' = IF target_pid \in Pids
                                THEN [proc EXCEPT ![target_pid] = pr] ELSE proc
                   /\ UNCHANGED << target_pid, current_state, executable_path,
                                   breakpoints, mem, preAdd, objects >>
              ELSE /\ mem' = [mem EXCEPT ![target_pid] =
                                PokeWord(@, address, new_data)]
                   /\ proc' = [proc EXCEPT ![target_pid] = pr]
                   /\ breakpoints' = Erase(breakpoints, address)
                   /\ preAdd' = Erase(preAdd, address)
                   /\ Return(o, TRUE)
                   /\ UNCHANGED << target_pid, current_state, executable_path,
                                   last_error, objects >>

remove_breakpoint(address) ==
  remove_software_breakpoint("remove_breakpoint", address)

\* the entries of the table
get_breakpoints == {breakpoints[a] : a \in DOMAIN breakpoints}

is_breakpoint_hit(address) == address \in DOMAIN breakpoints

get_process_id == target_pid

is_process_running == target_pid # NoPid

\* PTRACE_PEEKUSER of RIP; 0 when there is no process or the read fails
get_instruction_pointer ==
  IF target_pid = NoPid THEN 0
  ELSE IF CanTrace(target_pid) THEN proc[target_pid].ip ELSE 0

(***************************************************************************)
(* Memory.                                                                 *)
(***************************************************************************)
\* the word packed from data[i] .. data[i + sizeof(long) - 1] (i from 0),
\* the bytes past the end of data left 0
PackWord(data, i) ==
  [j \in 1 .. WordSize |-> IF i + j <= Len(data) THEN data[i + j] ELSE 0]

\* the loop of write_memory from offset i on: the memory it leaves and
\* whether every PTRACE_POKETEXT succeeded
RECURSIVE WriteLoop(_, _, _, _)
WriteLoop(m, address, data, i) ==
  IF i >= Len(data) THEN [mem |-> m, ok |-> TRUE]
  ELSE IF ~Writable(address + i) THEN [mem |-> m, ok |-> FALSE]
  ELSE WriteLoop(PokeWord(m, address + i, PackWord(data, i)),
                 address, data, i + WordSize)

write_memory(address, data) ==
  IF target_pid = NoPid
    THEN /\ Fail("write_memory", "No process attached")
         /\ UNCHANGED << target_pid, current_state, executable_path,
                         breakpoints, proc, mem, preAdd, objects >>
    ELSE LET r == IF CanTrace(target_pid)
                    THEN WriteLoop(mem[target_pid], address, data, 0)
                    ELSE [mem |-> mem[target_pid], ok |-> Len(data) = 0]
         IN /\ mem' = [mem EXCEPT ![target_pid] = r.mem]
            /\ IF r.ok
                 THEN Return("write_memory", TRUE)
                      /\ UNCHANGED last_error
                 ELSE Fail("write_memory", "Failed to write memory")
            /\ UNCHANGED << target_pid, current_state, executable_path,
                            breakpoints, proc, preAdd, objects >>

\* faulty variant of ReadLoop: every byte of each word read is appended
RECURSIVE ReadLoop_whole_words(_, _, _, _)
ReadLoop_whole_words(m, address, size, i) ==
  IF i >= size \/ ~Mapped(address + i) THEN << >>
  ELSE PeekWord(m, address + i)
       \o ReadLoop_whole_words(m, address, size, i + WordSize)

\* the loop of read_memory from offset i on: the bytes it appends; it ends at
\* the first PTRACE_PEEKTEXT that fails
RECURSIVE ReadLoop(_, _, _, _)
ReadLoop(m, address, size, i) ==
  IF i >= size \/ ~Mapped(address + i) THEN << >>
  ELSE LET word == PeekWord(m, address + i)
           n == IF size - i < WordSize THEN size - i ELSE WordSize
       IN [j \in 1 .. n |-> word[j]] \o ReadLoop(m, address, size, i + WordSize)

\* returns the bytes read (ret is the vector); last_error is never assigned
read_memory(address, size) ==
  /\ op' = "read_memory"
  /\ ret' = IF target_pid # NoPid /\ CanTrace(target_pid)
              THEN ReadLoop(mem[target_pid], address, size, 0)
              ELSE << >>
  /\ UNCHANGED << engine, proc, mem, preAdd, objects >>

(***************************************************************************)
(* Operations that are not implemented: each returns false and assigns     *)
(* nothing.                                                                *)
(***************************************************************************)
add_conditional_breakpoint(address, condition) ==
  /\ Return("add_conditional_breakpoint", FALSE)
  /\ UNCHANGED << engine, proc, mem, preAdd, objects >>

enable_breakpoint(address) ==
  /\ Return("enable_breakpoint", FALSE)
  /\ UNCHANGED << engine, proc, mem, preAdd, objects >>

disable_breakpoint(address) ==
  /\ Return("disable_breakpoint", FALSE)
  /\ UNCHANGED << engine, proc, mem, preAdd, objects >>

set_memory_protection(address, size, protection) ==
  /\ Return("set_memory_protection", FALSE)
  /\ UNCHANGED << engine, proc, mem, preAdd, objects >>

set_register(name, value) ==
  /\ Return("set_register", FALSE)
  /\ UNCHANGED << engine, proc, mem, preAdd, objects >>

(***************************************************************************)
(* The operations of the ElfParser and of the Disassembler.                *)
(***************************************************************************)
\* the symbol list grows with every successful load: loads are counted up to
\* MaxLoads
MaxLoads == 3

load_file(filename) ==
  /\ Len(parser.cached_info.symbols) < MaxLoads
  /\ \E junk \in JunksOf(filename) :
       LET r == LoadFile(parser, filename, junk)
       IN /\ parser' = r.parser
          /\ Return("load_file", r.ret)
  /\ UNCHANGED << engine, proc, mem, preAdd, disasm, arg, project, disk >>

\* the symbol is returned
find_symbol_by_address(address) ==
  /\ op' = "find_symbol_by_address"
  /\ ret' = FindSymbolByAddress(parser, address)
  /\ UNCHANGED << engine, proc, mem, preAdd, objects >>

\* the name is returned
get_function_name(address) ==
  /\ op' = "get_function_name"
  /\ ret' = GetFunctionName(parser, address)
  /\ UNCHANGED << engine, proc, mem, preAdd, objects >>

initialize(arch) ==
  \E opened \in BOOLEAN :
    /\ disasm' = Initialize(disasm, arch, opened)
    /\ Return("initialize", disasm'.initialized)
    /\ UNCHANGED << engine, proc, mem, preAdd, parser, arg, project, disk >>

get_architecture == disasm.current_arch

\* analyze_functions on the instruction stream arg
analyze_functions ==
  /\ op' = "analyze_functions"
  /\ ret' = AnalyzeFunctions(disasm, arg)
  /\ UNCHANGED << engine, proc, mem, preAdd, objects >>

\* the instructions are returned (ret is the vector)
disassemble(data, base_address) ==
  /\ op' = "disassemble"
  /\ ret' = Disassemble(disasm, data, base_address)
  /\ UNCHANGED << engine, proc, mem, preAdd, objects >>

\* the strings are returned (ret is the vector)
extract_strings(data) ==
  /\ op' = "extract_strings"
  /\ ret' = ExtractStrings(data)
  /\ UNCHANGED << engine, proc, mem, preAdd, objects >>

\* the addresses are returned (ret is the vector)
find_cross_references(address, instructions) ==
  /\ op' = "find_cross_references"
  /\ ret' = FindCrossReferences(address, instructions)
  /\ UNCHANGED << engine, proc, mem, preAdd, objects >>

(***************************************************************************)
(* MainWindow (src/src/gui/main_window.cpp) drives the parser and the      *)
(* disassembler.  Of its widgets the model keeps what the handler hands to *)
(* them, in ret.                                                           *)
(***************************************************************************)
\* open_file(filename) for a non-empty name: result is the value returned,
\* instructions what disassembly_view->set_instructions is called with
\* (none when it is not called)
open_file(filename) ==
  /\ Len(parser.cached_info.symbols) < MaxLoads
  /\ \E junk \in JunksOf(filename), opened \in BOOLEAN :
       LET r == LoadFile(parser, filename, junk)
       IN /\ parser' = r.parser
          /\ disasm' = IF r.ret
                         THEN Initialize(disasm, detect_architecture', opened)
                         ELSE disasm
          /\ op' = "open_file"
          /\ ret' =
               IF ~r.ret \/ ~disasm'.initialized
                 THEN [result |-> FALSE, instructions |-> << >>]
               ELSE LET code_data == get_code_section_data'
                    IN [result |-> TRUE,
                        instructions |->
                          IF code_data = << >> THEN << >>
                          ELSE Disassemble(disasm', code_data,
                                           get_entry_point')]
  /\ UNCHANGED << engine, proc, mem, preAdd, arg, project, disk >>

\* the handler of the action "analyze functions": instructions is what it
\* disassembles, functions what it shows
on_action_analyze_functions_triggered ==
  /\ op' = "on_action_analyze_functions_triggered"
  /\ ret' =
       IF ~is_valid_elf \/ get_code_section_data = << >>
         THEN [instructions |-> << >>, functions |-> << >>]
       ELSE LET instructions == Disassemble(disasm, get_code_section_data,
                                            get_entry_point)
            IN [instructions |-> instructions,
                functions |-> AnalyzeFunctions(disasm, instructions)]
  /\ UNCHANGED << engine, proc, mem, preAdd, objects >>

(***************************************************************************)
(* The operations of the Project; one file name is used.                   *)
(***************************************************************************)
\* the most breakpoints of a project
MaxBps == 2

Project_add_breakpoint(address, type, enabled, condition, name) ==
  /\ Len(project.breakpoints) < MaxBps
  /\ project' =
       [project EXCEPT
          !.breakpoints =
            Append(@, [address |-> address, type |-> type,
                       enabled |-> enabled, condition |-> condition,
                       name |-> IF name = << >>
                                  THEN << "b", "p",
                                        "_" >> \o Digits(address, 10)
                                  ELSE name]),
          !.modified = TRUE]
  /\ Return("Project::add_breakpoint", TRUE)
  /\ UNCHANGED << engine, proc, mem, preAdd, parser, disasm, arg, disk >>

Project_add_comment(address, comment) ==
  /\ project' = [project EXCEPT !.comments = Put(@, address, comment),
                                !.modified = TRUE]
  /\ Return("Project::add_comment", TRUE)
  /\ UNCHANGED << engine, proc, mem, preAdd, parser, disasm, arg, disk >>

Project_add_label(address, label) ==
  /\ project' = [project EXCEPT !.labels = Put(@, address, label),
                                !.modified = TRUE]
  /\ Return("Project::add_label", TRUE)
  /\ UNCHANGED << engine, proc, mem, preAdd, parser, disasm, arg, disk >>

\* save(filename); opened is the outcome of the std::ofstream
Project_save ==
  \E opened \in BOOLEAN :
    /\ IF opened
         THEN LET r == Save(project, "project", Now)
              IN /\ project' = r.project
                 /\ disk' = [exists |-> TRUE, lines |-> r.lines]
         ELSE UNCHANGED << project, disk >>
    /\ Return("Project::save", opened)
    /\ UNCHANGED << engine, proc, mem, preAdd, parser, disasm, arg >>

\* load(filename): the file opens when it exists
Project_load ==
  /\ project' = IF disk.exists
                  THEN Load(project, "project", disk.lines, Now)
                  ELSE project
  /\ Return("Project::load", disk.exists)
  /\ UNCHANGED << engine, proc, mem, preAdd, parser, disasm, arg, disk >>

(***************************************************************************)
(* The traced process runs.                                                *)
(***************************************************************************)
TraceeRun(p) ==
  /\ proc[p].status = "running"
  /\ proc' = [proc EXCEPT ![p] = Advance(@, mem[p])]
  /\ UNCHANGED << engine, mem, op, ret, preAdd, objects >>

(***************************************************************************)
(* Inputs.                                                                 *)
(***************************************************************************)
\* breakpoint addresses: the call, its return address (in the word of the
\* call), the last word that can be read (it cannot be written), and an
\* address whose word runs past the mapped memory
LastWord == MemTop - WordSize + 1
BpAddrs == {CallAddr, RetAddr, LastWord, MemTop - 1}
Paths == {"", "a.out"}
BpTypes == {"SOFTWARE", "HARDWARE"}
\* data of write_memory: the bytes 1, 2, .. n
Bytes(n) == [k \in 1 .. n |-> k]
\* the longest data written: one byte more than a word
MaxData == 9
WriteAddrs == {CallAddr, CallAddr + 1, LastWord - 1, LastWord}

(***************************************************************************)
(* Spec: the engine on a process it attaches to.  No executable is loaded, *)
(* so that start_process is refused.                                       *)
(***************************************************************************)
Next ==
  \/ \E pid \in Pids : attach_to_process(pid)
  \/ start_process
  \/ continue_execution
  \/ pause_execution
  \/ stop_execution
  \/ detach
  \/ step_into
  \/ step_over
  \/ step_out
  \/ \E a \in BpAddrs, t \in BpTypes : add_breakpoint(a, t)
  \/ \E a \in BpAddrs : remove_breakpoint(a)
  \/ write_memory(LastWord, Bytes(1))
  \/ \E p \in Pids : TraceeRun(p)

Spec == Init /\ [][Next]_vars

(***************************************************************************)
(* SpecMem: memory access on an attached process.                          *)
(***************************************************************************)
NextMem ==
  \/ \E pid \in Pids : attach_to_process(pid)
  \/ continue_execution
  \/ \E a \in WriteAddrs, n \in 0 .. MaxData : write_memory(a, Bytes(n))

SpecMem == Init /\ [][NextMem]_vars

(***************************************************************************)
(* SpecLaunch: sessions on launched and attached processes.                *)
(***************************************************************************)
NextLaunch ==
  \/ \E pid \in Pids : attach_to_process(pid)
  \/ \E path \in Paths : load_executable(path)
  \/ start_process
  \/ continue_execution
  \/ pause_execution
  \/ stop_execution
  \/ detach
  \/ step_into
  \/ \E p \in Pids : TraceeRun(p)

SpecLaunch == Init /\ [][NextLaunch]_vars

(***************************************************************************)
(* SpecTrap: a session with breakpoints in which the caller never asks for *)
(* a pause.  The traced process keeps executing while it is running.       *)
(***************************************************************************)
NextTrap ==
  \/ \E pid \in Pids : attach_to_process(pid)
  \/ continue_execution
  \/ stop_execution
  \/ detach
  \/ step_into
  \/ \E a \in BpAddrs, t \in BpTypes : add_breakpoint(a, t)
  \/ \E a \in BpAddrs : remove_breakpoint(a)
  \/ \E p \in Pids : TraceeRun(p)

SpecTrap == Init /\ [][NextTrap]_vars /\ WF_vars(\E p \in Pids : TraceeRun(p))

(***************************************************************************)
(* SpecApi: every public operation, the unimplemented ones included, on a  *)
(* process the engine attaches to.                                         *)
(***************************************************************************)
\* the longest read: one byte more than a word
MaxRead == 9
ReadAddrs == {CallAddr, LastWord, LastWord + 1}

NextApi ==
  \/ \E pid \in Pids : attach_to_process(pid)
  \/ start_process
  \/ continue_execution
  \/ pause_execution
  \/ stop_execution
  \/ detach
  \/ step_into
  \/ step_over
  \/ step_out
  \/ \E t \in BpTypes : add_breakpoint(CallAddr, t)
  \/ remove_breakpoint(CallAddr)
  \/ \E a \in ReadAddrs, n \in 0 .. MaxRead : read_memory(a, n)
  \/ write_memory(LastWord, Bytes(1))
  \/ add_conditional_breakpoint(CallAddr, "")
  \/ enable_breakpoint(CallAddr)
  \/ disable_breakpoint(CallAddr)
  \/ set_memory_protection(CallAddr, WordSize, "")
  \/ set_register("", 0)
  \/ \E p \in Pids : TraceeRun(p)

SpecApi == Init /\ [][NextApi]_vars

(***************************************************************************)
(* SpecRead: memory is read on a process the engine attaches to, with and  *)
(* without a breakpoint on the call, while it is stopped and while it runs.*)
(***************************************************************************)
NextRead ==
  \/ \E pid \in Pids : attach_to_process(pid)
  \/ continue_execution
  \/ detach
  \/ add_breakpoint(CallAddr, "SOFTWARE")
  \/ remove_breakpoint(CallAddr)
  \/ \E a \in ReadAddrs, n \in 0 .. MaxRead : read_memory(a, n)
  \/ \E p \in Pids : TraceeRun(p)

SpecRead == Init /\ [][NextRead]_vars

(***************************************************************************)
(* SpecElf: files are loaded into one parser.                              *)
(***************************************************************************)
InitElf ==
  /\ EngineInit
  /\ parser \in FreshParsers
  /\ disasm = NewDisassembler("X86_64", TRUE)
  /\ arg = << >>
  /\ project = NewProject
  /\ disk = NoFile

\* the addresses symbols are looked up for: around the range of the symbol
\* of an entry point at 4096, around the one of top64 (the highest address
\* is 2^64 - 1), and 0
SymbolAddrs ==
  {0, 4096 - 1, 4096, 4096 + 99, 4096 + 100, -64 - 1, -64, -1}

NextElf ==
  \/ \E f \in FileNames : load_file(f)
  \/ \E address \in SymbolAddrs : find_symbol_by_address(address)
  \/ \E address \in SymbolAddrs : get_function_name(address)

SpecElf == InitElf /\ [][NextElf]_vars

(***************************************************************************)
(* SpecDis: function analysis of an instruction stream.  The stream is     *)
(* laid out from StreamBase on, each instruction behind the one before.    *)
(***************************************************************************)
\* the longest instruction stream
MaxInsns == 4
StreamBase == 4 * 1024

\* push rbp / sub rsp, 8 / mov rbp, rsp / stp x29, x30 / nop / ret
Kinds ==
  { [mnemonic |-> "push", operands |-> << "r", "b", "p" >>,
     size |-> 1, is_return |-> FALSE],
    [mnemonic |-> "sub", operands |-> << "r", "s", "p", ",", " ", "8" >>,
     size |-> 4, is_return |-> FALSE],
    [mnemonic |-> "mov",
     operands |-> << "r", "b", "p", ",", " ", "r", "s", "p" >>,
     size |-> 3, is_return |-> FALSE],
    [mnemonic |-> "stp",
     operands |-> << "x", "2", "9", ",", " ", "x", "3", "0" >>,
     size |-> 4, is_return |-> FALSE],
    [mnemonic |-> "nop", operands |-> << >>, size |-> 1, is_return |-> FALSE],
    [mnemonic |-> "ret", operands |-> << >>, size |-> 1, is_return |-> TRUE] }

RECURSIVE Layout(_, _)
Layout(ks, address) ==
  IF ks = << >> THEN << >>
  ELSE << [address |-> address, mnemonic |-> Head(ks).mnemonic,
           operands |-> Head(ks).operands, size |-> Head(ks).size,
           is_return |-> Head(ks).is_return] >>
       \o Layout(Tail(ks), address + Head(ks).size)

Streams ==
  {Layout(ks, StreamBase) : ks \in UNION {[1 .. n -> Kinds] : n \in 0 .. MaxInsns}}

\* push rbp / nop / ret 8: the kinds of the streams whose instructions are
\* not laid out one behind the other
OverlaidKinds ==
  { [mnemonic |-> "push", operands |-> << "r", "b", "p" >>,
     size |-> 1, is_return |-> FALSE],
    [mnemonic |-> "nop", operands |-> << >>, size |-> 1, is_return |-> FALSE],
    [mnemonic |-> "ret", operands |-> << "8" >>, size |-> 3,
     is_return |-> TRUE] }

\* the instructions ks, the k-th at address + k - 1 whatever the sizes: the
\* addresses increase and an instruction of more than a byte reaches into
\* the next
Overlay(ks, address) ==
  [k \in 1 .. Len(ks) |->
     [address |-> address + k - 1, mnemonic |-> ks[k].mnemonic,
      operands |-> ks[k].operands, size |-> ks[k].size,
      is_return |-> ks[k].is_return]]

\* analyze_functions takes any vector of instructions: streams laid out as
\* the decoder does, and streams of overlapping instructions
OverlaidStreams ==
  {Overlay(ks, StreamBase) :
     ks \in UNION {[1 .. n -> OverlaidKinds] : n \in 2 .. MaxInsns}}

InitDis ==
  /\ EngineInit
  /\ parser = FreshParser("UNKNOWN", 0, FALSE, FALSE)
  /\ disasm \in {NewDisassembler(arch, opened) : arch \in Archs, opened \in BOOLEAN}
  /\ arg \in Streams \cup OverlaidStreams
  /\ project = NewProject
  /\ disk = NoFile

NextDis ==
  \/ analyze_functions
  \/ \E arch \in Archs : initialize(arch)

SpecDis == InitDis /\ [][NextDis]_vars

(***************************************************************************)
(* SpecCode: a disassembler of the x86 family decodes byte streams and     *)
(* scans buffers for strings.                                              *)
(***************************************************************************)
\* the most instructions of a byte stream, and the longest buffer scanned
MaxCode == 3
MaxBuf == 6

\* nop / ret / call +16 / jmp +16 / jmp rax / jmp [rip + 16]
Encodings ==
  { << OpNop >>, << OpRet >>, << OpCall, 16, 0, 0, 0 >>, << OpJmp8, 16 >>,
    << OpGrp5, ModJmpReg >>, << OpGrp5, ModJmpMem, 16, 0, 0, 0 >> }

CodeBuffers ==
  {Flatten(es) : es \in UNION {[1 .. n -> Encodings] : n \in 0 .. MaxCode}}

Bases == {0, StreamBase}

\* the bytes of a scanned buffer: 'A', the space and NUL
TextBuffers == UNION {[1 .. n -> {65, 32, 0}] : n \in 0 .. MaxBuf}

\* arg is the buffer handed to the disassembler
InitCode ==
  /\ EngineInit
  /\ parser = FreshParser("UNKNOWN", 0, FALSE, FALSE)
  /\ disasm \in {NewDisassembler(arch, opened) :
                   arch \in {"X86", "X86_64"}, opened \in BOOLEAN}
  /\ arg \in CodeBuffers \cup TextBuffers
  /\ project = NewProject
  /\ disk = NoFile

\* the addresses references are looked up for: the targets of the
\* instructions, the sentinel 0 and the first address of the stream
XrefAddrs(instructions) ==
  {0, StreamBase}
  \cup {instructions[i].target_address : i \in 1 .. Len(instructions)}

\* byte streams are decoded and references looked up in the instructions
\* decoded last, every buffer is scanned for strings
NextCode ==
  \/ arg \in CodeBuffers /\ \E base \in Bases : disassemble(arg, base)
  \/ /\ op = "disassemble"
     /\ \E address \in XrefAddrs(ret) : find_cross_references(address, ret)
  \/ extract_strings(arg)
  \/ \E arch \in {"X86", "X86_64", "UNKNOWN"} : initialize(arch)

SpecCode == InitCode /\ [][NextCode]_vars

(***************************************************************************)
(* SpecGui: files are opened in the main window and their functions        *)
(* analyzed.                                                               *)
(***************************************************************************)
NextGui ==
  \/ \E f \in FileNames : open_file(f)
  \/ on_action_analyze_functions_triggered

SpecGui == InitElf /\ [][NextGui]_vars

(***************************************************************************)
(* SpecProject: a project is filled, saved and loaded.                     *)
(***************************************************************************)
\* the texts of conditions, names, comments and labels: none, a quote, a
\* text in blanks with an equals sign, a text in quotes
Texts == {<< >>, << "\"" >>, << " ", "=", " " >>, << "\"", "a", "\"" >>}

\* the addresses of breakpoints, comments and labels
ProjectAddrs == {0, 16 * 10 + 11}

\* the breakpoints added: address, enabled, condition, name (the empty name
\* lets add_breakpoint make one)
BreakpointInputs ==
  { << 0, TRUE, << >>, << >> >>,
    << 16 * 10 + 11, FALSE, << "\"" >>, << " ", "=", " " >> >>,
    << 0, TRUE, << "\"", "a", "\"" >>, << "\"" >> >> }

NextProject ==
  \/ \E bp \in BreakpointInputs :
       Project_add_breakpoint(bp[1], << "s", "o", "f", "t", "w", "a", "r",
             "e" >>, bp[2], bp[3], bp[4])
  \/ \E address \in ProjectAddrs \ DOMAIN project.comments,
        comment \in Texts \ {<< >>, << "\"" >>} :
       Project_add_comment(address, comment)
  \/ /\ project.labels = NoTexts
     /\ \E label \in {<< >>, << "\"" >>} : Project_add_label(0, label)
  \/ Project_save
  \/ Project_load

SpecProject == Init /\ [][NextProject]_vars

(***************************************************************************)
(* Properties.                                                             *)
(***************************************************************************)
Attached == target_pid \in Pids

\* C1: a successful remove_breakpoint(A) that follows a successful
\* add_breakpoint(A) on the same process leaves the byte at A equal to the
\* byte that was at A before the add_breakpoint.
C1_InsertRemoveRestores ==
  [][\A a \in BpAddrs :
       (/\ remove_breakpoint(a)
        /\ ret'
        /\ a \in DOMAIN preAdd
        /\ preAdd[a].pid = target_pid)
       => mem'[target_pid][a] = preAdd[a].byte]_vars

\* C1 witness: the last call was a successful remove_breakpoint (so an
\* add_breakpoint at its address had succeeded), no breakpoint is left and
\* the target's memory is the program again.
C1_Witness ==
  /\ op = "remove_breakpoint"
  /\ ret
  /\ Attached
  /\ DOMAIN breakpoints = {}
  /\ mem[target_pid] = Image

\* C2: a successful remove_breakpoint(A) leaves every other breakpoint B
\* (also one in the word of A) as it was: the byte at B is still the trap
\* opcode, the table still holds B's entry with its original_byte, and
\* is_breakpoint_hit(B) is true.
C2_OtherBreakpointIntact ==
  [][\A a \in BpAddrs, b \in BpAddrs :
       (/\ a # b
        /\ remove_breakpoint(a)
        /\ ret'
        /\ Attached
        /\ b \in DOMAIN breakpoints
        /\ mem[target_pid][b] = INT3)
       => /\ mem'[target_pid][b] = INT3
          /\ is_breakpoint_hit(b)'
          /\ breakpoints'[b] = breakpoints[b]]_vars

\* C3: a successful write_memory(address, data) sets exactly the bytes
\* address .. address + n - 1 to data and leaves every other byte of the
\* target's memory unchanged.
C3_WriteExact ==
  [][\A a \in WriteAddrs, n \in 0 .. MaxData :
       (write_memory(a, Bytes(n)) /\ ret' /\ Attached)
       => \A x \in Addrs :
            mem'[target_pid][x] =
              IF x >= a /\ x < a + n THEN Bytes(n)[x - a + 1]
              ELSE mem[target_pid][x]]_vars

\* C4: a successful step_over() in state Paused with the instruction
\* pointer at the call (whose callee returns normally) ends with the
\* instruction pointer right behind the call.
C4_StepOverCall ==
  [][(/\ step_over
      /\ ret'
      /\ current_state = "PAUSED"
      /\ CanTrace(target_pid)
      /\ ~proc[target_pid].sigstop
      /\ proc[target_pid].ip = CallAddr
      /\ mem[target_pid] = Image)
     => get_instruction_pointer' = CallAddr + CallSize]_vars

\* C5: attach_to_process(pid), when the tracing request is refused, returns
\* false and sets a non-empty last error; from state NotRunning it leaves
\* the state NotRunning, the process id unset and the process untraced.
C5_AttachRefused ==
  [][\A pid \in Pids :
       /\ (attach_to_process(pid) /\ proc[pid].status # "free") => ~ret'
       /\ (attach_to_process(pid) /\ ~ret')
          => /\ last_error' # ""
             /\ proc' = proc
             /\ current_state = "NOT_RUNNING"
                => (current_state' = "NOT_RUNNING" /\ get_process_id' = NoPid)]_vars

\* C5 witness: attach_to_process has just failed in state NotRunning.
C5_Witness ==
  /\ op = "attach_to_process"
  /\ ~ret
  /\ current_state = "NOT_RUNNING"
  /\ target_pid = NoPid
  /\ last_error = "Failed to attach to process"

ControlOps ==
  {"attach_to_process", "start_process", "continue_execution",
   "pause_execution", "stop_execution", "detach", "step_into", "step_over",
   "step_out", "add_breakpoint", "remove_breakpoint", "write_memory"}

\* C6: a control operation that returns false leaves current_state and the
\* process id as they were before the call.
C6_FailureKeepsState ==
  [][(op' \in ControlOps /\ ~ret')
     => (current_state' = current_state /\ target_pid' = target_pid)]_vars

\* C6 witness: continue_execution has just failed in state Paused.
C6_Witness ==
  /\ op = "continue_execution"
  /\ ~ret
  /\ current_state = "PAUSED"
  /\ last_error = "Failed to continue execution"

\* C7: add_breakpoint or remove_breakpoint returning false leaves the
\* breakpoint table exactly as it was.
C7_FailureKeepsTable ==
  [][(op' \in {"add_breakpoint", "remove_breakpoint"} /\ ~ret')
     => breakpoints' = breakpoints]_vars

\* C7 witness: the write of add_breakpoint has just failed while the table
\* holds a breakpoint.
C7_Witness ==
  /\ op = "add_breakpoint"
  /\ ~ret
  /\ last_error = "Failed to write breakpoint instruction"
  /\ DOMAIN breakpoints # {}

\* C8: continue_execution() succeeds only in state Paused and then ends in
\* Running, pause_execution() succeeds only in state Running, and each,
\* when it fails, leaves the state unchanged.
C8_ContinuePauseGuards ==
  [][/\ (continue_execution /\ ret')
        => (current_state = "PAUSED" /\ current_state' = "RUNNING")
     /\ (pause_execution /\ ret') => current_state = "RUNNING"
     /\ ((continue_execution \/ pause_execution) /\ ~ret')
        => current_state' = current_state]_vars

\* C9: when a control operation has returned and current_state is Paused,
\* the traced process is stopped and its stop has been waited for.
C9_PausedIsStopped ==
  (op \in ControlOps /\ current_state = "PAUSED")
  => /\ CanTrace(target_pid)
     /\ ~proc[target_pid].notify

\* C10: a successful stop_execution() ends in Stopped with no process id;
\* a successful detach() ends in NotRunning with no process id and the
\* target alive.
C10_StopAndDetach ==
  [][/\ (stop_execution /\ ret')
        => /\ current_state' = "STOPPED"
           /\ get_process_id' = NoPid
           /\ ~is_process_running'
     /\ (detach /\ ret')
        => /\ current_state' = "NOT_RUNNING"
           /\ get_process_id' = NoPid
           /\ proc'[target_pid].status = "free"]_vars

\* C10 witness: detach has just succeeded and the process it released is
\* alive.
C10_Witness ==
  /\ op = "detach"
  /\ ret
  /\ current_state = "NOT_RUNNING"
  /\ target_pid = NoPid
  /\ \E p \in Pids : proc[p].status = "free"

\* C11: a successful stop_execution() or detach() leaves the breakpoint
\* table empty: get_breakpoints() has no entry and is_breakpoint_hit(A) is
\* false for every A.
C11_SessionEndClearsTable ==
  [][((stop_execution \/ detach) /\ ret')
     => /\ get_breakpoints' = {}
        /\ \A a \in Addrs : ~is_breakpoint_hit(a)']_vars

\* the processes the engine traces
Traced == {p \in Pids : proc[p].status \in {"running", "stopped"}}

\* C12: the engine traces at most one process, and it is the process
\* get_process_id() names.
C12_SingleSession == Traced \subseteq {get_process_id}

\* the target is gone: it was reaped, or it is dead
Vanished(p) == p \in Pids /\ proc[p].status \in {"none", "zombie"}

\* C13: a control operation whose tracing request fails because the target
\* has vanished, and a step whose wait reports the target's exit, end in
\* state Error; in state Error every control operation other than detach()
\* and stop_execution() returns false.
C13_VanishedIsError ==
  [][/\ ((continue_execution \/ step_into \/ step_over \/ detach)
          /\ ~ret' /\ Vanished(target_pid))
        => current_state' = "ERROR"
     /\ ((step_into \/ step_over)
          /\ ret' /\ Attached /\ Vanished(target_pid)')
        => current_state' = "ERROR"
     /\ ((continue_execution \/ pause_execution \/ step_into \/ step_over)
          /\ current_state = "ERROR")
        => ~ret']_vars

\* the target is stopped by the trap of the breakpoint on the call: the trap
\* opcode at CallAddr is the only change of its memory, and its instruction
\* pointer is one byte behind it (inside the call instruction, where only
\* the trap leads)
AtCallBreakpoint ==
  /\ CanTrace(target_pid)
  /\ ~proc[target_pid].sigstop
  /\ is_breakpoint_hit(CallAddr)
  /\ breakpoints[CallAddr].original_byte = OpCall
  /\ mem[target_pid] = [Image EXCEPT ![CallAddr] = INT3]
  /\ proc[target_pid].ip = CallAddr + 1

\* C14: with the target stopped at the breakpoint on the call, a successful
\* continue_execution() or step executes the call once (the target is in
\* the callee, the return address pushed) and the byte at the breakpoint is
\* the trap opcode afterwards.
C14_ResumeFromBreakpoint ==
  [][((continue_execution \/ step_into \/ step_over)
      /\ ret' /\ AtCallBreakpoint)
     => LET done == Exec([proc[target_pid] EXCEPT !.ip = CallAddr], Image)
        IN /\ proc'[target_pid].ip = done.ip
           /\ proc'[target_pid].stack = done.stack
           /\ mem'[target_pid][CallAddr] = INT3]_vars

\* the traced process has trapped and the engine's state is still Running
TrappedWhileRunning ==
  /\ current_state = "RUNNING"
  /\ CanTrace(target_pid)
  /\ proc[target_pid].notify

\* C15: when the traced process stops on a trap while current_state is
\* Running, current_state eventually becomes Paused (the caller does not
\* invoke pause_execution()), unless the caller ends the session first.
C15_TrapLeadsToPaused ==
  TrappedWhileRunning ~> (current_state = "PAUSED" \/ ~Attached)

PublicOps ==
  ControlOps \cup {"add_conditional_breakpoint", "enable_breakpoint",
                   "disable_breakpoint", "set_memory_protection",
                   "set_register"}

\* C16: after a public operation has reported failure (false, or fewer
\* bytes than asked for from read_memory) the last error is non-empty.
C16_FailureSetsError ==
  [][/\ (op' \in PublicOps /\ ~ret') => last_error' # ""
     /\ \A a \in ReadAddrs, n \in 0 .. MaxRead :
          (read_memory(a, n) /\ Len(ret') < n) => last_error' # ""]_vars

\* C17: start_process() returns true only with the state Paused and the
\* recorded pid that of an existing child in its initial stop; when it
\* returns false the last error is non-empty and the state is unchanged.
C17_LaunchOutcome ==
  [][/\ (start_process /\ ret')
        => /\ current_state' = "PAUSED"
           /\ target_pid' \in Pids
           /\ proc'[target_pid'].status = "stopped"
     /\ (start_process /\ ~ret')
        => /\ last_error' # ""
           /\ current_state' = current_state
           /\ target_pid' = target_pid]_vars

\* the file exists and starts with the ELF magic
HasMagic(filename) ==
  /\ filename \in DOMAIN FileData
  /\ Len(FileData[filename]) >= 4
  /\ SubSeq(FileData[filename], 1, 4) = ElfMagic

\* C18: load_file of a file whose first four bytes are not the ELF magic (a
\* file shorter than four bytes included) returns false, and afterwards the
\* last error is non-empty and is_valid_elf() is false, whatever was loaded
\* before.
C18_NoMagicRejected ==
  [][\A f \in DOMAIN FileData :
       (load_file(f) /\ ~HasMagic(f))
       => /\ ~ret'
          /\ parser'.last_error # ""
          /\ ~is_valid_elf']_vars

\* C18 witness: after a successful load, the load of the three-byte file has
\* just failed.
C18_Witness ==
  /\ op = "load_file"
  /\ ~ret
  /\ parser.filename = "short"
  /\ parser.cached_info.symbols # << >>
  /\ ~is_valid_elf
  /\ parser.last_error = "Not a valid ELF file"

\* C19: after a successful load_file(G), whatever was loaded before, the
\* ElfInfo is the one load_file(G) gives on a freshly constructed parser.
C19_ReloadReplaces ==
  [][\A g \in FileNames :
       (load_file(g) /\ ret')
       => \E fresh \in FreshParsers, junk \in JunksOf(g) :
            get_elf_info' = LoadFile(fresh, g, junk).parser.cached_info]_vars

\* the stream is a prologue, then any instructions, then a return
PrologueToReturn ==
  /\ Len(arg) >= 2
  /\ is_function_start(disasm, arg[1])
  /\ arg[Len(arg)].is_return

\* C20 as stated: for a stream that is a prologue, any instructions and a
\* return, analyze_functions returns exactly one function, from the address
\* of the prologue to the end of the return.
C20_OneFunction ==
  [][(analyze_functions /\ PrologueToReturn)
     => /\ Len(ret') = 1
        /\ ret'[1].start_address = arg[1].address
        /\ ret'[1].end_address
             = arg[Len(arg)].address + arg[Len(arg)].size]_vars

\* no instruction between the first and the last is a return
NoInnerReturn == \A i \in 2 .. Len(arg) - 1 : ~arg[i].is_return

\* C20, amended: for a stream that is a prologue, instructions none of which
\* is a return, and a return, analyze_functions returns exactly one
\* function, from the address of the prologue to the end of the return.
C20_OneFunctionNoInnerReturn ==
  [][(analyze_functions /\ PrologueToReturn /\ NoInnerReturn)
     => /\ Len(ret') = 1
        /\ ret'[1].start_address = arg[1].address
        /\ ret'[1].end_address
             = arg[Len(arg)].address + arg[Len(arg)].size]_vars

\* C20 witness: analyze_functions has returned one function for a stream of
\* a prologue, two instructions that are no return (one of them a prologue
\* idiom again), and a return.
C20_Witness ==
  /\ op = "analyze_functions"
  /\ Len(arg) = 4
  /\ PrologueToReturn
  /\ NoInnerReturn
  /\ is_function_start(disasm, arg[2])
  /\ Len(ret) = 1
  /\ Len(ret[1].instructions) = 4

\* n single-byte NOP encodings
Nops(n) == [i \in 1 .. n |-> OpNop]

\* C21: disassemble() on N >= 1 single-byte NOP encodings with an
\* initialized x86 or x86-64 decoder yields exactly N instructions, the i-th
\* (from 0) at address base + i, each of size 1, none flagged is_call,
\* is_jump or is_return, each with target_address 0.
C21_NopStream ==
  [][\A n \in 1 .. MaxCode, base \in Bases :
       (/\ arg = Nops(n)
        /\ disassemble(arg, base)
        /\ disasm.initialized
        /\ disasm.current_arch \in {"X86", "X86_64"})
       => /\ Len(ret') = n
          /\ \A i \in 1 .. n :
               /\ ret'[i].address = base + i - 1
               /\ ret'[i].size = 1
               /\ ~ret'[i].is_call
               /\ ~ret'[i].is_jump
               /\ ~ret'[i].is_return
               /\ ret'[i].target_address = 0]_vars

\* C21 witness: disassemble has returned MaxCode instructions, each a nop,
\* the first at StreamBase.
C21_Witness ==
  /\ op = "disassemble"
  /\ disasm.initialized
  /\ arg = Nops(MaxCode)
  /\ Len(ret) = MaxCode
  /\ \A i \in 1 .. Len(ret) : ret[i].mnemonic = "nop"
  /\ ret[1].address = StreamBase

\* a printable byte that is not NUL
Printable(c) == c >= 32 /\ c <= 126 /\ c # 0

\* the first positions of the maximal runs of printable bytes of data, the
\* last position of the run that starts at s, and the runs of 4 bytes or more
RunStarts(data) ==
  {s \in 1 .. Len(data) :
     Printable(data[s]) /\ (s = 1 \/ ~Printable(data[s - 1]))}
RunEnd(data, s) ==
  CHOOSE e \in s .. Len(data) :
    /\ \A k \in s .. e : Printable(data[k])
    /\ (e = Len(data) \/ ~Printable(data[e + 1]))
LongRuns(data) == {s \in RunStarts(data) : RunEnd(data, s) - s + 1 >= 4}

\* C22: extract_strings(data) returns, in buffer order, exactly the maximal
\* runs of printable non-NUL bytes of data that are at least 4 long,
\* wherever the run lies (a run that ends at the last byte included).
C22_ExactRuns ==
  [][extract_strings(arg)
     => /\ Len(ret') = Cardinality(LongRuns(arg))
        /\ \A s \in LongRuns(arg) :
             ret'[Cardinality({t \in LongRuns(arg) : t < s}) + 1]
               = SubSeq(arg, s, RunEnd(arg, s))]_vars

\* the target of the instruction is encoded in it as a displacement, and
\* the address the displacement gives
DirectTarget(insn) == insn.bytes[1] \in {OpCall, OpJmp8}
EncodedTarget(insn) ==
  insn.address + insn.size
  + (IF insn.bytes[1] = OpCall THEN Rel32(insn.bytes, 2)
                               ELSE Rel8(insn.bytes[2]))

\* C23: a decoded jump or call whose target is indirect or register-relative
\* has target_address 0; one whose target is a directly encoded displacement
\* has that address as its target_address; an instruction that is neither
\* jump nor call has target_address 0.
C23_TargetResolution ==
  [][op' = "disassemble"
     => \A k \in 1 .. Len(ret') :
          LET insn == ret'[k]
          IN IF insn.is_jump \/ insn.is_call
               THEN insn.target_address
                      = IF DirectTarget(insn) THEN EncodedTarget(insn) ELSE 0
               ELSE insn.target_address = 0]_vars

\* the file holds the whole ELF header of its class
CompleteHeader(f) == Len(f) >= (IF f[5] = 2 THEN 64 ELSE 52)

\* a program header of the file f (whose header is complete) is a PT_LOAD
\* header with the flag PF_X
HasExecSegment(f) ==
  LET is64 == f[5] = 2
      little == f[6] = 1
      phoff == Field(f, IF is64 THEN 32 ELSE 28, IF is64 THEN 8 ELSE 4, little)
      phnum == Field(f, IF is64 THEN 56 ELSE 44, 2, little)
      at(i) == phoff + i * (IF is64 THEN Phdr64Size ELSE Phdr32Size)
  IN \E i \in 0 .. phnum - 1 :
       /\ Field(f, at(i), 4, little) = 1
       /\ Field(f, at(i) + (IF is64 THEN 4 ELSE 24), 4, little) % 2 = 1

\* C24: load_file of a file that has the ELF magic (and a whole header) but
\* no PT_LOAD program header with the executable flag returns true, with
\* is_valid_elf() true and the last error empty, and get_code_section_data()
\* is empty afterwards.
C24_NoExecSegmentLoads ==
  [][\A n \in DOMAIN FileData :
       (/\ load_file(n)
        /\ HasMagic(n)
        /\ CompleteHeader(FileData[n])
        /\ ~HasExecSegment(FileData[n]))
       => /\ ret'
          /\ is_valid_elf'
          /\ parser'.last_error = ""
          /\ get_code_section_data' = << >>]_vars

\* C25: the virtual-address ranges [address, address + size) of the
\* sections of get_sections() are pairwise disjoint.
C25_SectionsDisjoint ==
  \A i \in 1 .. Len(get_sections), j \in 1 .. Len(get_sections) :
    i # j => \/ get_sections[i].address + get_sections[i].size
                  <= get_sections[j].address
             \/ get_sections[j].address + get_sections[j].size
                  <= get_sections[i].address

\* C26: load_file of a file that starts with the ELF magic and is shorter
\* than the ELF header of its class returns false with a non-empty last
\* error, and derives no entry point and no code segment (the cached entry
\* point and sections stay as they were).
C26_TruncatedHeaderRejected ==
  [][\A n \in DOMAIN FileData :
       (load_file(n) /\ HasMagic(n) /\ ~CompleteHeader(FileData[n]))
       => /\ ~ret'
          /\ parser'.last_error # ""
          /\ parser'.cached_info.entry_point = parser.cached_info.entry_point
          /\ get_sections' = get_sections]_vars

\* C27: a successful add_breakpoint(A) or remove_breakpoint(A) changes no
\* byte of the target's memory other than the byte at A, whatever the
\* outcome of the word read that precedes the write.
C27_OnlyByteAtAddress ==
  [][\A a \in BpAddrs :
       (/\ add_breakpoint(a, "SOFTWARE") \/ remove_breakpoint(a)
        /\ ret'
        /\ Attached)
       => \A x \in Addrs \ {a} :
            mem'[target_pid][x] = mem[target_pid][x]]_vars

\* every table entry's original_byte is the byte of the program at its
\* address, and every address without an entry holds the byte of the program
OriginalBytesKept ==
  /\ Attached
  /\ \A a \in Addrs :
       IF a \in DOMAIN breakpoints
         THEN breakpoints[a].original_byte = Image[a]
         ELSE mem[target_pid][a] = Image[a]

\* C28: a successful add_breakpoint or remove_breakpoint (add_breakpoint at
\* an address that has a breakpoint included) keeps this: every entry's
\* original_byte is the byte the program had at its address before any
\* insertion, and every address without an entry holds its program byte.
C28_OriginalBytePreserved ==
  [][\A a \in BpAddrs :
       (/\ add_breakpoint(a, "SOFTWARE") \/ remove_breakpoint(a)
        /\ ret'
        /\ OriginalBytesKept)
       => OriginalBytesKept']_vars

\* C29: the process id is unset exactly when current_state is NotRunning or
\* Stopped; is_process_running() is true exactly when current_state is
\* Running or Paused.
C29_PidMatchesState ==
  /\ get_process_id = NoPid <=> current_state \in {"NOT_RUNNING", "STOPPED"}
  /\ is_process_running <=> current_state \in {"RUNNING", "PAUSED"}

\* C29 witness: a failed start_process (no process id is left) has followed
\* the launch of a process, and the engine still holds that process, Paused.
C29_Witness ==
  /\ op = "start_process"
  /\ ~ret
  /\ last_error = "Failed to fork process"
  /\ is_process_running
  /\ current_state = "PAUSED"

\* the offsets of the word reads of read_memory(address, size), and the
\* first of them whose read fails (size when every read succeeds)
WordOffsets(size) == {i \in 0 .. size - 1 : i % WordSize = 0}
FirstFailure(address, size) ==
  LET failing == {i \in WordOffsets(size) :
                    ~(CanTrace(target_pid) /\ Mapped(address + i))}
  IN IF failing = {} THEN size
     ELSE CHOOSE i \in failing : \A j \in failing : i <= j

\* C30: read_memory(address, size) on an attached process returns, when
\* every word read succeeds, exactly size bytes (also when size is no
\* multiple of the word size), and otherwise the bytes of the words read
\* before the first failure; the i-th byte returned is the target's byte at
\* address + i and no byte beyond the requested range is returned.
C30_ReadExact ==
  [][(op' = "read_memory" /\ Attached)
     => \A a \in ReadAddrs, n \in 0 .. MaxRead :
          read_memory(a, n)
          => /\ Len(ret') = FirstFailure(a, n)
             /\ Len(ret') <= n
             /\ \A i \in 1 .. Len(ret') :
                  ret'[i] = mem[target_pid][a + i - 1]]_vars

\* C30 witness: read_memory has returned MaxRead bytes (one more than a
\* word), the bytes of the target from the call on, while a breakpoint is
\* set on the call.
C30_Witness ==
  /\ op = "read_memory"
  /\ Attached
  /\ is_breakpoint_hit(CallAddr)
  /\ Len(ret) = MaxRead
  /\ \A i \in 1 .. Len(ret) : ret[i] = mem[target_pid][CallAddr + i - 1]
  /\ ret[1] = INT3

\* the members of the index set idx in ascending order
Ascending(idx) ==
  [k \in 1 .. Cardinality(idx) |->
     CHOOSE i \in idx : Cardinality({j \in idx : j < i}) = k - 1]

\* the addresses of the instructions at the indexes idx, in stream order
AddressesAt(instructions, idx) ==
  [k \in 1 .. Cardinality(idx) |-> instructions[Ascending(idx)[k]].address]

\* the indexes of the instructions whose target_address is address, and of
\* the jumps and calls among them
WithTarget(address, instructions) ==
  {i \in 1 .. Len(instructions) : instructions[i].target_address = address}
BranchesWithTarget(address, instructions) ==
  {i \in WithTarget(address, instructions) :
     instructions[i].is_jump \/ instructions[i].is_call}

\* C31 as stated: find_cross_references(address, instructions) returns, in
\* stream order, the address of every instruction whose target_address
\* equals address, and no other address, for every address, 0 included.
C31_AllWithTarget ==
  [][op = "disassemble"
     => \A address \in XrefAddrs(ret) :
          find_cross_references(address, ret)
          => ret' = AddressesAt(ret, WithTarget(address, ret))]_vars

\* C31: find_cross_references(address, instructions) returns, in stream
\* order, the address of every jump or call instruction whose
\* target_address equals address, and no other address, for every address;
\* for address 0 these are the jumps and calls with no resolved target.
C31_BranchesWithTarget ==
  [][op = "disassemble"
     => \A address \in XrefAddrs(ret) :
          find_cross_references(address, ret)
          => ret' = AddressesAt(ret, BranchesWithTarget(address, ret))]_vars

\* C31 witness: of nop / jmp rax / ret decoded at StreamBase, the references
\* to address 0 are the jump alone, though all three have target_address 0.
C31_Witness ==
  /\ op = "find_cross_references"
  /\ arg = << OpNop, OpGrp5, ModJmpReg, OpRet >>
  /\ disasm.initialized
  /\ ret = << StreamBase + 1 >>
  /\ ret = FindCrossReferences(0, Disassemble(disasm, arg, StreamBase))

\* the index of the last instruction with is_return set (0 without one), and
\* the indexes behind it of the instructions that match the prologue idiom
LastReturn(instructions) ==
  LET rs == {i \in 1 .. Len(instructions) : instructions[i].is_return}
  IN IF rs = {} THEN 0 ELSE CHOOSE i \in rs : \A j \in rs : j <= i
ProloguesSince(d, instructions) ==
  {i \in LastReturn(instructions) + 1 .. Len(instructions) :
     is_function_start(d, instructions[i])}

\* C32: if the stream ends while a function is open (a prologue was seen and
\* no return since), analyze_functions emits that function as last element,
\* with every instruction from its prologue to the end of the stream and
\* end_address = address + size of the last instruction of the stream.
C32_OpenFunctionEmitted ==
  [][(analyze_functions /\ ProloguesSince(disasm, arg) # {})
     => LET open == ProloguesSince(disasm, arg)
            p == CHOOSE i \in open : \A j \in open : i <= j
            back == arg[Len(arg)]
            last == ret'[Len(ret')]
        IN /\ Len(ret') >= 1
           /\ last.start_address = arg[p].address
           /\ last.instructions = SubSeq(arg, p, Len(arg))
           /\ last.end_address = back.address + back.size]_vars

\* C32 witness: of push rbp / ret / push rbp / nop the second function is
\* emitted, open at the end of the stream, with the last two instructions.
C32_Witness ==
  /\ op = "analyze_functions"
  /\ disasm.current_arch = "X86_64"
  /\ Len(arg) = 4
  /\ arg[1].mnemonic = "push" /\ arg[2].is_return
  /\ arg[3].mnemonic = "push" /\ arg[4].mnemonic = "nop"
  /\ Len(ret) = 2
  /\ ret[2].instructions = SubSeq(arg, 3, 4)
  /\ ret[2].end_address = arg[4].address + arg[4].size

\* the addresses of the stream increase strictly; every instruction begins
\* at or behind the end of the one before
Increasing(instructions) ==
  \A i \in 1 .. Len(instructions) - 1 :
    instructions[i].address < instructions[i + 1].address
NonOverlapping(instructions) ==
  \A i \in 1 .. Len(instructions) - 1 :
    instructions[i].address + instructions[i].size
      <= instructions[i + 1].address

\* the first index of the slice of the stream that the function f holds (f
\* starts at the address of that instruction), and the last
SliceFirst(instructions, f) ==
  CHOOSE a \in 1 .. Len(instructions) :
    instructions[a].address = f.start_address
SliceLast(instructions, f) ==
  SliceFirst(instructions, f) + Len(f.instructions) - 1

\* the functions fs are in ascending address order and their ranges
\* [start_address, end_address) are pairwise disjoint
AscendingDisjoint(fs) ==
  \A i, j \in 1 .. Len(fs) :
    i < j => /\ fs[i].start_address < fs[j].start_address
             /\ fs[i].end_address <= fs[j].start_address

\* each function of fs holds a contiguous slice of the stream that begins
\* with a prologue-matching instruction and has at most one is_return
\* instruction, its last; the slice begins at the first prologue-matching
\* instruction behind the slice of the function before (so a prologue met
\* while a function is open opens none)
SlicesOf(d, instructions, fs) ==
  \A n \in 1 .. Len(fs) :
    LET f == fs[n]
        a == SliceFirst(instructions, f)
        b == SliceLast(instructions, f)
        before == IF n = 1 THEN 0 ELSE SliceLast(instructions, fs[n - 1])
    IN /\ \E k \in 1 .. Len(instructions) :
            instructions[k].address = f.start_address
       /\ Len(f.instructions) >= 1
       /\ b <= Len(instructions)
       /\ f.instructions = SubSeq(instructions, a, b)
       /\ is_function_start(d, instructions[a])
       /\ \A k \in a .. b : instructions[k].is_return => k = b
       /\ before < a
       /\ \A k \in before + 1 .. a - 1 : ~is_function_start(d, instructions[k])

\* C33 as stated: for every stream with strictly increasing addresses the
\* functions are in ascending address order with pairwise disjoint ranges,
\* each a contiguous slice that begins with a prologue and has at most one
\* return, its last; a prologue met while a function is open opens none.
C33_IncreasingAddresses ==
  [][(analyze_functions /\ Increasing(arg))
     => /\ AscendingDisjoint(ret')
        /\ SlicesOf(disasm, arg, ret')]_vars

\* C33: the same for every stream in which every instruction begins at or
\* behind the end of the one before (as in the streams disassemble returns).
C33_NonOverlapping ==
  [][(analyze_functions /\ Increasing(arg) /\ NonOverlapping(arg))
     => /\ AscendingDisjoint(ret')
        /\ SlicesOf(disasm, arg, ret')]_vars

\* C33 witness: of push rbp / push rbp / ret / sub rsp, 8 two functions are
\* returned: the second push opens none, the second function is open at the
\* end of the stream and begins where the first ends.
C33_Witness ==
  /\ op = "analyze_functions"
  /\ disasm.current_arch = "X86_64"
  /\ Increasing(arg) /\ NonOverlapping(arg)
  /\ Len(arg) = 4
  /\ arg[1].mnemonic = "push" /\ arg[2].mnemonic = "push"
  /\ arg[3].is_return /\ arg[4].mnemonic = "sub"
  /\ Len(ret) = 2
  /\ Len(ret[1].instructions) = 3
  /\ ret[1].end_address = ret[2].start_address

\* C34: initialize(arch) returns false for every architecture outside
\* {X86, X86_64, ARM, ARM64}; the decoder is usable exactly when the last
\* initialize returned true: after a failed initialize, disassemble returns
\* an empty list for every input, after a successful one it decodes; and
\* get_architecture() names the architecture of the decode context in use
\* (that of the last initialize when it succeeded, none when it failed).
C34_InitializeOutcome ==
  [][/\ \A arch \in Archs :
          initialize(arch)
          => /\ arch \notin Supported => ret' = FALSE
             /\ disasm'.initialized = ret'
             /\ ret' = TRUE => get_architecture' = arch
     /\ op' # "initialize" => disasm' = disasm
     /\ (op' = "disassemble" /\ ~disasm.initialized) => ret' = << >>
     /\ (op' = "disassemble" /\ disasm.initialized /\ arg # << >>
         /\ arg \in CodeBuffers)
        => Len(ret') >= 1
     /\ ~disasm'.initialized => get_architecture' = "UNKNOWN"]_vars

\* p_filesz of the first PT_LOAD header with the flag PF_X of the file f
\* (whose header is complete and which has such a header)
ExecFilesz(f) ==
  LET is64 == f[5] = 2
      little == f[6] = 1
      phoff == Field(f, IF is64 THEN 32 ELSE 28, IF is64 THEN 8 ELSE 4, little)
      phnum == Field(f, IF is64 THEN 56 ELSE 44, 2, little)
      at(i) == phoff + i * (IF is64 THEN Phdr64Size ELSE Phdr32Size)
      exec == {i \in 0 .. phnum - 1 :
                 /\ Field(f, at(i), 4, little) = 1
                 /\ Field(f, at(i) + (IF is64 THEN 4 ELSE 24), 4, little) % 2
                      = 1}
      first == CHOOSE i \in exec : \A j \in exec : i <= j
  IN Field(f, at(first) + (IF is64 THEN 32 ELSE 16), IF is64 THEN 8 ELSE 4,
           little)

\* C35: after a successful load_file of a file with a code segment, the
\* code section's data is at most 1 MiB and at most p_filesz long, whatever
\* size the program header declares, and the section's size field is the
\* length of the data, the number of bytes read from the file.
C35_CodeSectionBounded ==
  [][\A n \in DOMAIN FileData :
       (/\ load_file(n)
        /\ ret'
        /\ CompleteHeader(FileData[n])
        /\ HasExecSegment(FileData[n]))
       => /\ Len(get_code_section_data') <= MaxSegment
          /\ Len(get_code_section_data') <= ExecFilesz(FileData[n])
          /\ get_section(".text")'.size = Len(get_code_section_data')]_vars

\* s.address <= address < s.address + s.size, the sum taken in the integers
\* (a symbol at the top of the address space reaches to 2^64 and beyond)
InRange(s, address) ==
  /\ ~ULess(address, s.address)
  /\ \/ s.address < 0 /\ s.address + s.size >= 0
     \/ ULess(address, s.address + s.size)

\* the symbols of the table whose range holds the address
SymbolsAt(address) ==
  {i \in 1 .. Len(parser.cached_info.symbols) :
     InRange(parser.cached_info.symbols[i], address)}

\* C36: find_symbol_by_address(addr) returns a symbol s of the table with
\* s.address <= addr < s.address + s.size whenever the table has one, for
\* every 64-bit address and size, and the empty symbol otherwise;
\* get_function_name(addr) returns that symbol's name if it is a function
\* and the empty string otherwise.
C36_SymbolByAddress ==
  [][\A addr \in SymbolAddrs :
       /\ find_symbol_by_address(addr)
          => IF SymbolsAt(addr) # {}
               THEN /\ InRange(ret', addr)
                    /\ \E i \in SymbolsAt(addr) :
                         ret' = parser.cached_info.symbols[i]
               ELSE ret' = NoSymbol
       /\ get_function_name(addr)
          => LET s == FindSymbolByAddress(parser, addr)
             IN ret' = IF s.name # "" /\ s.is_function THEN s.name ELSE ""]_vars

\* C37: for the breakpoints (address, type, enabled, condition, name) and
\* the comments and labels of a Project, whose texts have no line break,
\* save(f) followed by load(f) on a fresh Project yields the same list of
\* breakpoints in the same order and the same comments and labels, and
\* leaves is_modified() false.  Stated on the state behind a save that
\* succeeded, where the project still holds what was written and disk holds
\* the file, and on the state behind a load that succeeded, where the
\* project holds what the load of the file made of it.
C37_SaveLoadRoundTrip ==
  (op \in {"Project::save", "Project::load"} /\ ret = TRUE)
    => LET p == Load(NewProject, "project", disk.lines, Now)
       IN /\ p.breakpoints = project.breakpoints
          /\ p.comments = project.comments
          /\ p.labels = project.labels
          /\ ~p.modified
          /\ ~project.modified

\* C37 witness: a project has been loaded that has MaxBps breakpoints, the
\* last with a quote as condition and a name in blanks, a disabled one
\* among them, comments at both addresses and a label.
C37_Witness ==
  /\ op = "Project::load"
  /\ ret = TRUE
  /\ project.loaded /\ ~project.modified
  /\ Len(project.breakpoints) = MaxBps
  /\ project.breakpoints[MaxBps].condition = << "\"" >>
  /\ project.breakpoints[MaxBps].name = << " ", "=", " " >>
  /\ ~project.breakpoints[MaxBps].enabled
  /\ project.breakpoints[1].name = << "b", "p", "_", "0" >>
  /\ DOMAIN project.comments = ProjectAddrs
  /\ \E a \in ProjectAddrs : project.comments[a] = << "\"", "a", "\"" >>
  /\ DOMAIN project.labels = {0}

\* the byte offset in the decoded data of the i-th instruction (i from 1)
RECURSIVE OffsetOf(_, _)
OffsetOf(instructions, i) ==
  IF i = 1 THEN 0
  ELSE OffsetOf(instructions, i - 1) + instructions[i - 1].size

\* C38: when a file is opened or its functions are analyzed, the code
\* section is disassembled with the section's virtual address as base
\* address: the instruction decoded from byte offset k of the section data
\* carries the address section.address + k.
C38_SectionAddressIsBase ==
  op \in {"open_file", "on_action_analyze_functions_triggered"}
    => \A i \in 1 .. Len(ret.instructions) :
         ret.instructions[i].address
           = get_section(".text").address + OffsetOf(ret.instructions, i)

=============================================================================
